---- MODULE Spec2Model ----
(***************************************************************************)
(* Model of the GramDominator ingestion worker: the acquisition            *)
(* orchestrator scrapeTikTokTrends (src/src/worker/tiktok.ts) with its two *)
(* circuit breakers, its stale-data store and its alert webhook, and the   *)
(* circuit breaker of the proxy-grid client (src/lib/proxy-grid.ts).       *)
(*                                                                         *)
(* Time is Date.now() in milliseconds.  A call that the code wraps in      *)
(* try/catch is modelled by an operator returning [threw, val]; a caller   *)
(* that does not catch propagates threw to the scrape's own outcome.       *)
(***************************************************************************)
EXTENDS Integers, Sequences, FiniteSets, TLC

VARIABLES now, puppeteerBreaker, proxyGridBreaker, audio_trends, env,
          pc, options, attempt, ret, threw, trace, staleSeen, entry, scrapes,
          impl, cb, lastCall,
          audio_trend_history, hashtags, ppc, run, result, runs, request,
          normIn, normOut,
          inMemoryCache, kvBackup, served,
          responseCache, client,
          MOCK_KV, cronLog,
          queryCache, queries,
          rateLimitStore, rateLog

vars == <<now, puppeteerBreaker, proxyGridBreaker, audio_trends, env,
          pc, options, attempt, ret, threw, trace, staleSeen, entry, scrapes,
          impl, cb, lastCall,
          audio_trend_history, hashtags, ppc, run, result, runs, request,
          normIn, normOut,
          inMemoryCache, kvBackup, served,
          responseCache, client,
          MOCK_KV, cronLog,
          queryCache, queries,
          rateLimitStore, rateLog>>

workerVars == <<puppeteerBreaker, proxyGridBreaker, audio_trends, env,
                pc, options, attempt, ret, threw, trace, staleSeen, entry,
                scrapes>>

breakerVars == <<impl, cb, lastCall>>

pipeVars == <<audio_trend_history, hashtags, ppc, run, result, runs, request>>

normVars == <<normIn, normOut>>

fallbackVars == <<inMemoryCache, kvBackup, served>>

clientVars == <<responseCache, client>>

cronVars == <<MOCK_KV, cronLog>>

queryVars == <<queryCache, queries>>

rateVars == <<rateLimitStore, rateLog>>

auxVars == <<cronVars, queryVars, rateVars>>

libVars == <<fallbackVars, clientVars, auxVars>>

(* const responseCache = new Map(): no entry under either key *)
NoCached == [present |-> FALSE, data |-> <<>>, expiresAt |-> 0]

CacheKeys == {"tiktok-trends-default", "other"}

NoClient == [pc |-> "idle", fn |-> "none", force |-> FALSE, key |-> "none",
             attempt |-> 0, outcomes |-> <<>>, sleeps |-> <<>>,
             lastError |-> "null", out |-> <<>>, threw |-> FALSE,
             message |-> [kind |-> "none", attempts |-> 0, cause |-> "null"],
             fromCache |-> FALSE, rejected |-> FALSE,
             before |-> [isOpen |-> FALSE, failureCount |-> 0,
                         lastFailureTime |-> 0, nextAttemptTime |-> 0],
             calls |-> 0]

(* const MOCK_KV = new Map(): the key "cron:execution" is absent and no     *)
(* deletion timer is pending                                               *)
NoExecution == [lastRun |-> 0, lastSuccess |-> 0, lastFailure |-> 0,
                consecutiveFailures |-> 0, consecutiveSuccesses |-> 0,
                totalRuns |-> 0]

NoKV == [present |-> FALSE, value |-> NoExecution, timers |-> {}]

(* lib/db.ts: const queryCache = new Map(), under the keys of              *)
(* getAudioTrends(50) and getAudioById("a"). crossed marks an entry         *)
(* written by a query that was in flight, its rows already read, when the  *)
(* cache was invalidated.                                                  *)
QueryKeys == {"v1:trends:50", "v1:audio:a"}

NoQueryEntry == [present |-> FALSE, data |-> {}, timestamp |-> 0,
                 crossed |-> FALSE]

(* the callers of cachedQuery and the position of each in its call         *)
Callers == {1, 2}

NoQuery == [pc |-> "idle", key |-> "none", val |-> {}, hit |-> FALSE,
            crossed |-> FALSE, stale |-> FALSE]

(* middleware: const rateLimitStore = new Map(), under the keys of two     *)
(* clients; rateLog is the history of the answers of handleApiRoute        *)
Identifiers == {"ip:1", "apikey:k"}

NoRateEntry == [present |-> FALSE, count |-> 0, resetTime |-> 0]

(* let inMemoryCache = {}: no trends, no timestamp *)
NoCache == [present |-> FALSE, trends |-> <<>>, timestamp |-> 0]

NoBackup == [present |-> FALSE, trends |-> <<>>]

NoServed == [source |-> "none", rows |-> <<>>, threw |-> FALSE, limit |-> 0,
             d1 |-> [threw |-> FALSE, rows |-> <<>>], kvAvail |-> FALSE,
             kvOut |-> "ok", kv |-> NoBackup, cache |-> NoCache, at |-> 0]

LibIdle ==
    /\ inMemoryCache = NoCache
    /\ kvBackup = NoBackup
    /\ served = NoServed
    /\ responseCache = [k \in CacheKeys |-> NoCached]
    /\ client = NoClient
    /\ MOCK_KV = NoKV
    /\ cronLog = <<>>
    /\ queryCache = [k \in QueryKeys |-> NoQueryEntry]
    /\ queries = [c \in Callers |-> NoQuery]
    /\ rateLimitStore = [k \in Identifiers |-> NoRateEntry]
    /\ rateLog = <<>>

----------------------------------------------------------------------------
(* Program constants *)

MAX_ITEMS == 50

MAX_RETRIES == 3

INITIAL_RETRY_DELAY == 1000

CIRCUIT_THRESHOLD == 5

CIRCUIT_TIMEOUT == 300000

CIRCUIT_BREAKER_CONFIG == [threshold |-> 5, timeout |-> 60000, halfOpenAttempts |-> 2]

(* Bounds of the model *)

MaxScrapes == 1

MaxTime == 300000

MaxFailures == 7

MaxBreakerTime == 420000

TickSteps == {CIRCUIT_TIMEOUT}

----------------------------------------------------------------------------
(* Helpers *)

Has(s, e) == \E i \in 1..Len(s) : s[i] = e

Count(s, S) == Cardinality({i \in 1..Len(s) : s[i] \in S})

Min(x, y) == IF x <= y THEN x ELSE y

RECURSIVE Pow2(_)
Pow2(n) == IF n <= 0 THEN 1 ELSE 2 * Pow2(n - 1)

Take(s, n) == IF Len(s) <= n THEN s ELSE SubSeq(s, 1, n)

RerankKeepsRank(s) == s

(* staleData.map((item, idx) => ({ ...item, rank: idx + 1 })) *)
Rerank(s) == [i \in 1..Len(s) |-> [s[i] EXCEPT !.rank = i]]

----------------------------------------------------------------------------
(* Circuit breaker of the worker, src/src/worker/tiktok.ts *)

InitBreaker == [isOpen |-> FALSE, failureCount |-> 0,
                lastFailureTime |-> 0, nextAttemptTime |-> 0]

calculateRetryDelay(a) == Min(INITIAL_RETRY_DELAY * Pow2(a), 10000)

canExecuteCircuitNoGate(b, t) == [ok |-> TRUE, breaker |-> b]

canExecuteCircuit(b, t) ==
    IF ~b.isOpen THEN [ok |-> TRUE, breaker |-> b]
    ELSE IF t >= b.nextAttemptTime
         THEN [ok |-> TRUE,
               breaker |-> [b EXCEPT !.isOpen = FALSE, !.failureCount = 0]]
         ELSE [ok |-> FALSE, breaker |-> b]

recordCircuitSuccessNoReset(b) == [b EXCEPT !.isOpen = FALSE]

recordCircuitSuccess(b) == [b EXCEPT !.failureCount = 0, !.isOpen = FALSE]

recordCircuitFailureLate(b, t) ==
    LET b1 == [b EXCEPT !.failureCount = @ + 1, !.lastFailureTime = t]
    IN  IF b1.failureCount > CIRCUIT_THRESHOLD
        THEN [b1 EXCEPT !.isOpen = TRUE, !.nextAttemptTime = t + CIRCUIT_TIMEOUT]
        ELSE b1

recordCircuitFailure(b, t) ==
    LET b1 == [b EXCEPT !.failureCount = @ + 1, !.lastFailureTime = t]
    IN  IF b1.failureCount >= CIRCUIT_THRESHOLD
        THEN [b1 EXCEPT !.isOpen = TRUE, !.nextAttemptTime = t + CIRCUIT_TIMEOUT]
        ELSE b1

(* Circuit breaker of the proxy-grid client, src/lib/proxy-grid.ts *)

canExecute(b, t) ==
    IF ~b.isOpen THEN [ok |-> TRUE, breaker |-> b]
    ELSE IF t >= b.nextAttemptTime
         THEN [ok |-> TRUE,
               breaker |-> [b EXCEPT !.isOpen = FALSE, !.failureCount = 0]]
         ELSE [ok |-> FALSE, breaker |-> b]

recordSuccessKeepsOpen(b) == [b EXCEPT !.failureCount = 0]

recordSuccess(b) == [b EXCEPT !.failureCount = 0, !.isOpen = FALSE]

recordFailure(b, t) ==
    LET b1 == [b EXCEPT !.failureCount = @ + 1, !.lastFailureTime = t]
    IN  IF b1.failureCount >= CIRCUIT_BREAKER_CONFIG.threshold
        THEN [b1 EXCEPT !.isOpen = TRUE,
                        !.nextAttemptTime = t + CIRCUIT_BREAKER_CONFIG.timeout]
        ELSE b1

----------------------------------------------------------------------------
(* The store: table audio_trends, one row per id (platform is "tiktok").   *)
(* A NULL genre or vibe is the string "null".                              *)

Item(r) == [id |-> r.id, rank |-> r.rank]

(* ORDER BY updated_at DESC LIMIT ?: every order of the rows that is       *)
(* non-increasing in updated_at; rows with equal updated_at come in any    *)
(* order.                                                                  *)
StaleOrders(T) ==
    LET n == Cardinality(T)
        perms == {s \in [1..n -> T] :
                    /\ \A i, j \in 1..n : i # j => s[i] # s[j]
                    /\ \A i, j \in 1..n :
                          i < j => s[i].updated_at >= s[j].updated_at}
    IN  {Take([i \in 1..n |-> Item(s[i])], MAX_ITEMS) : s \in perms}

getStaleDataUncaught(order, dbOut) ==
    IF dbOut = "throw" THEN [threw |-> TRUE, val |-> <<>>]
    ELSE [threw |-> FALSE, val |-> order]

(* try { SELECT ... } catch { return [] } *)
getStaleData(order, dbOut) ==
    IF dbOut = "throw" THEN [threw |-> FALSE, val |-> <<>>]
    ELSE [threw |-> FALSE, val |-> order]

UpsertAllColumns(T, data, t) ==
    LET ids == {data[i].id : i \in 1..Len(data)}
        last(id) == CHOOSE i \in 1..Len(data) :
                       /\ data[i].id = id
                       /\ \A j \in 1..Len(data) : data[j].id = id => j <= i
    IN  {r \in T : r.id \notin ids}
        \cup {[id |-> id, rank |-> data[last(id)].rank, updated_at |-> t,
               genre |-> "null", vibe |-> "null", growth_rate |-> "null"]
              : id \in ids}

(* INSERT ... ON CONFLICT(platform, id) DO UPDATE, one statement per item, *)
(* all stamped with the same timestamp; growth_rate, genre and vibe are    *)
(* bound to null and are not among the columns updated on conflict         *)
Upsert(T, data, t) ==
    LET ids == {data[i].id : i \in 1..Len(data)}
        last(id) == CHOOSE i \in 1..Len(data) :
                       /\ data[i].id = id
                       /\ \A j \in 1..Len(data) : data[j].id = id => j <= i
        old(id) == CHOOSE r \in T : r.id = id
    IN  {r \in T : r.id \notin ids}
        \cup {[id |-> id, rank |-> data[last(id)].rank, updated_at |-> t,
               genre |-> IF \E r \in T : r.id = id THEN old(id).genre ELSE "null",
               vibe |-> IF \E r \in T : r.id = id THEN old(id).vibe ELSE "null",
               growth_rate |-> IF \E r \in T : r.id = id THEN old(id).growth_rate ELSE "null"]
              : id \in ids}

(* try { DB.batch(statements) } catch { log } *)
cacheResults(T, data, t, dbOut) ==
    IF dbOut = "throw" THEN [threw |-> FALSE, table |-> T]
    ELSE [threw |-> FALSE, table |-> Upsert(T, data, t)]

(* if (!env.SLACK_WEBHOOK_URL) return; try { fetch(...) } catch { log } *)
sendAlert(e, alertOut) ==
    [threw |-> FALSE, posted |-> e.SLACK_WEBHOOK_URL]

(* Inputs of one scrape *)

Outcomes == {"ok", "throw"}

LiveLists == {<<[id |-> "b", rank |-> 1], [id |-> "a", rank |-> 2]>>}

(* what scrapeWithPuppeteer / scrapeWithProxyGrid can do: throw, return    *)
(* an empty list, return items                                             *)
LiveOutcomes == {[threw |-> TRUE, val |-> <<>>]}
                \cup {[threw |-> FALSE, val |-> l] : l \in {<<>>} \cup LiveLists}

InitStores == {{},
               {[id |-> "a", rank |-> 2, updated_at |-> 0,
                 genre |-> "pop", vibe |-> "null", growth_rate |-> "computed"],
                [id |-> "b", rank |-> 1, updated_at |-> 0,
                 genre |-> "null", vibe |-> "null", growth_rate |-> "null"]}}

Options == [forceProxyGrid : BOOLEAN, useStaleFallback : BOOLEAN]

Envs == [PROXY_GRID_SECRET : BOOLEAN, SLACK_WEBHOOK_URL : BOOLEAN]

(* Breaker states of a worker that has been running since time 0: fresh,   *)
(* closed after four failures, open after the fifth                        *)
InitBreakers ==
    {[isOpen |-> FALSE, failureCount |-> c,
      lastFailureTime |-> 0, nextAttemptTime |-> 0] : c \in {0, 4}}
    \cup {[isOpen |-> TRUE, failureCount |-> CIRCUIT_THRESHOLD,
           lastFailureTime |-> 0, nextAttemptTime |-> CIRCUIT_TIMEOUT]}

----------------------------------------------------------------------------
(* scrapeWithProxyGridFallback, as a function of the state it reads and of *)
(* what its collaborators do:                                              *)
(*   sec      outcome of scrapeWithProxyGrid                               *)
(*   order    rows the SELECT of getStaleData yields when it succeeds      *)
(*   dbRead   whether that SELECT throws; dbWrite whether DB.batch throws  *)
(*   alertOut whether the webhook POST throws                              *)
(* The result carries the returned list, whether the call threw, the new   *)
(* breaker and table, the calls made (events) and the last value read by   *)
(* getStaleData (stale).                                                   *)

scrapeWithProxyGridFallback(e, pgb, T, t, sec, order, dbRead, dbWrite, alertOut) ==
    LET alert == sendAlert(e, alertOut)
        alertEv == IF alert.posted THEN <<"alert">> ELSE <<>>
        gate == canExecuteCircuit(pgb, t)
        Out(r, th, b, tab, ev, st) ==
            [ret |-> r, threw |-> th, breaker |-> b, table |-> tab,
             events |-> ev, stale |-> st]
        (* lines 354-371 (and 280-296 when the breaker is open) *)
        StaleExit(b, ev) ==
            LET stale == getStaleData(order, dbRead)
            IN  IF stale.threw
                THEN Out(<<>>, TRUE, b, T, ev \o <<"stale">>, <<>>)
                ELSE IF Len(stale.val) > 0
                THEN Out(Rerank(stale.val), FALSE, b, T,
                         ev \o <<"stale">> \o alertEv, stale.val)
                ELSE Out(<<>>, FALSE, b, T,
                         ev \o <<"stale">> \o alertEv, stale.val)
    IN  IF ~e.PROXY_GRID_SECRET
        THEN Out(<<>>, FALSE, pgb, T, alertEv, <<>>)
        ELSE IF ~gate.ok
        THEN StaleExit(gate.breaker, <<>>)
        ELSE IF sec.threw
        THEN StaleExit(recordCircuitFailure(gate.breaker, t), <<"secondaryThrow">>)
        ELSE IF Len(sec.val) > 0
        THEN LET b1 == recordCircuitSuccess(gate.breaker)
                 c == cacheResults(T, sec.val, t, dbWrite)
             IN  IF c.threw
                 THEN StaleExit(recordCircuitFailure(b1, t),
                                <<"secondaryData", "cache">>)
                 ELSE Out(sec.val, FALSE, b1, c.table,
                          <<"secondaryData", "cache">> \o alertEv, <<>>)
        ELSE StaleExit(recordCircuitFailure(gate.breaker, t), <<"secondaryEmpty">>)

----------------------------------------------------------------------------
(* State                                                                   *)
(*   now               Date.now()                                          *)
(*   puppeteerBreaker, proxyGridBreaker   module state of tiktok.ts        *)
(*   audio_trends      the current-state table                             *)
(*   env               which bindings of the worker are configured         *)
(*   pc, options, attempt   position in scrapeTikTokTrends                 *)
(*   ret, threw        what the call returned, or that it threw            *)
(*   trace             calls made so far by the scrape in progress         *)
(*   staleSeen         value of the scrape's latest getStaleData           *)
(*   entry             breakers, table and time when the scrape was        *)
(*                     entered, and the value of its first getStaleData    *)
(*   scrapes           number of scrapes completed                         *)
(*   impl, cb          a breaker driven through its three functions, and   *)
(*                     which of the two implementations it is              *)
(*   lastCall          history of cb: op, the last function called;        *)
(*                     streak, the recordFailure calls since cb was last   *)
(*                     closed with failureCount 0; at5, the time of the    *)
(*                     fifth of them; from, what cb was when recordSuccess *)
(*                     was last called; phase, "halfOpen" once canExecute  *)
(*                     has let a call through an open breaker and          *)
(*                     "halfOpenFailed" once that call has failed          *)

NoOptions == [forceProxyGrid |-> FALSE, useStaleFallback |-> FALSE]

NoEnv == [PROXY_GRID_SECRET |-> FALSE, SLACK_WEBHOOK_URL |-> FALSE]

NoEntry == [puppeteerBreaker |-> InitBreaker, proxyGridBreaker |-> InitBreaker,
            audio_trends |-> {}, now |-> 0, stale |-> <<>>,
            audio_trend_history |-> {}, hashtags |-> {}]

NoCall == [op |-> "none", streak |-> 0, at5 |-> 0, from |-> "none", phase |-> "none"]

(* runPipeline's locals before a run, its result before it has returned,   *)
(* and normalizeTrends before it has been applied                          *)
NoLimit == [given |-> FALSE, finite |-> FALSE, halves |-> 0]

NoRun == [normalized |-> <<>>, timestamp |-> 0, limit |-> NoLimit, maxTags |-> 0,
          tagsGenerated |-> 0, idx |-> 0, statements |-> <<>>,
          tagCalls |-> <<>>, growthCalls |-> <<>>, batches |-> 0,
          tagMap |-> {}, historyMap |-> {}]

NoResult == [status |-> "none", count |-> 0, top_song |-> "null",
             tags_generated |-> 0,
             source |-> "none", hashtag_ingest |-> "none", threw |-> FALSE]

(* historyMap.get(id) of an id without a history row *)
NoHistory == [id |-> "none", snapshot_at |-> 0 - 1, rank |-> 0]

(* no request is being served *)
NoRequest == [kind |-> "none", authorized |-> FALSE,
              forceProxyGrid |-> FALSE, useStaleFallback |-> FALSE]

NoOutput == [applied |-> FALSE, val |-> <<>>]

Init ==
    /\ now = 0
    /\ puppeteerBreaker \in InitBreakers
    /\ proxyGridBreaker \in InitBreakers
    /\ audio_trends \in InitStores
    /\ env = NoEnv
    /\ pc = "idle"
    /\ options = NoOptions
    /\ attempt = 0
    /\ ret = <<>>
    /\ threw = FALSE
    /\ trace = <<>>
    /\ staleSeen = <<>>
    /\ entry = NoEntry
    /\ scrapes = 0
    /\ impl = "worker"
    /\ cb = InitBreaker
    /\ lastCall = NoCall
    /\ audio_trend_history = {}
    /\ hashtags = {}
    /\ ppc = "idle"
    /\ run = NoRun
    /\ result = NoResult
    /\ request = NoRequest
    /\ runs = <<>>
    /\ normIn = <<>>
    /\ normOut = NoOutput
    /\ LibIdle

StaleOptOutAlways(stale, opts) == Len(stale) > 0 \/ opts.useStaleFallback

(* if (staleData.length > 0 && options.useStaleFallback), line 169 *)
StaleOptOut(stale, opts) == Len(stale) > 0 /\ opts.useStaleFallback

(* scrapeTikTokTrends, lines 165-189: the stale opt-out, the primary       *)
(* breaker's gate and the forceProxyGrid switch                            *)
Enter(e, opts, order, dbRead) ==
    /\ pc = "idle"
    /\ scrapes < MaxScrapes
    /\ env' = e
    /\ options' = opts
    /\ LET stale == getStaleData(order, dbRead)
           gate == canExecuteCircuit(puppeteerBreaker, now)
       IN  /\ trace' = <<"stale">>
           /\ entry' = [puppeteerBreaker |-> puppeteerBreaker,
                        proxyGridBreaker |-> proxyGridBreaker,
                        audio_trends |-> audio_trends, now |-> now,
                        stale |-> stale.val,
                        audio_trend_history |-> audio_trend_history,
                        hashtags |-> hashtags]
           /\ staleSeen' = stale.val
           /\ IF stale.threw
              THEN /\ threw' = TRUE
                   /\ pc' = "done"
                   /\ UNCHANGED <<ret, attempt, puppeteerBreaker>>
              ELSE IF StaleOptOut(stale.val, opts)
              THEN /\ ret' = Rerank(stale.val)
                   /\ pc' = "done"
                   /\ UNCHANGED <<threw, attempt, puppeteerBreaker>>
              ELSE /\ puppeteerBreaker' = gate.breaker
                   /\ IF ~gate.ok
                      THEN pc' = "fallback" /\ attempt' = attempt
                      ELSE IF opts.forceProxyGrid
                      THEN pc' = "fallback" /\ attempt' = attempt
                      ELSE pc' = "primary" /\ attempt' = 1
                   /\ UNCHANGED <<ret, threw>>
    /\ UNCHANGED <<now, proxyGridBreaker, audio_trends, scrapes>>
    /\ UNCHANGED breakerVars
    /\ UNCHANGED <<audio_trend_history, hashtags, ppc, run, result, runs, normVars, libVars>>

(* One iteration of the retry loop, lines 191-248, up to its sleep *)
PrimaryAttempt(out, dbWrite) ==
    /\ pc = "primary"
    /\ LET Caught(b, ev) ==
               /\ puppeteerBreaker' = recordCircuitFailure(b, now)
               /\ trace' = trace \o ev
               /\ pc' = IF attempt < MAX_RETRIES THEN "sleep" ELSE "fallback"
               /\ UNCHANGED <<ret, attempt, audio_trends>>
       IN  IF out.threw
           THEN Caught(puppeteerBreaker, <<"primaryThrow">>)
           ELSE IF Len(out.val) > 0
           THEN LET b1 == recordCircuitSuccess(puppeteerBreaker)
                    c == cacheResults(audio_trends, out.val, now, dbWrite)
                IN  IF c.threw
                    THEN Caught(b1, <<"primaryData", "cache">>)
                    ELSE /\ puppeteerBreaker' = b1
                         /\ audio_trends' = c.table
                         /\ trace' = trace \o <<"primaryData", "cache">>
                         /\ ret' = out.val
                         /\ pc' = "done"
                         /\ UNCHANGED attempt
           ELSE /\ trace' = Append(trace, "primaryEmpty")
                /\ attempt' = attempt + 1
                /\ pc' = IF attempt < MAX_RETRIES THEN "primary" ELSE "fallback"
                /\ UNCHANGED <<ret, puppeteerBreaker, audio_trends>>
    /\ UNCHANGED <<now, proxyGridBreaker, env, options, threw, staleSeen,
                   entry, scrapes>>
    /\ UNCHANGED breakerVars
    /\ UNCHANGED <<pipeVars, normVars, libVars>>

(* await sleep(calculateRetryDelay(attempt - 1)), lines 239-246 *)
Sleep ==
    /\ pc = "sleep"
    /\ now' = now + calculateRetryDelay(attempt - 1)
    /\ trace' = Append(trace, "sleep")
    /\ attempt' = attempt + 1
    /\ pc' = "primary"
    /\ UNCHANGED <<puppeteerBreaker, proxyGridBreaker, audio_trends, env,
                   options, ret, threw, staleSeen, entry, scrapes>>
    /\ UNCHANGED breakerVars
    /\ UNCHANGED <<pipeVars, normVars, libVars>>

(* return await scrapeWithProxyGridFallback(env, context, startTime) *)
Fallback(sec, order, dbRead, dbWrite, alertOut) ==
    /\ pc = "fallback"
    /\ LET r == scrapeWithProxyGridFallback(env, proxyGridBreaker, audio_trends,
                    now, sec, order, dbRead, dbWrite, alertOut)
       IN  /\ ret' = r.ret
           /\ threw' = r.threw
           /\ proxyGridBreaker' = r.breaker
           /\ audio_trends' = r.table
           /\ trace' = trace \o <<"proxyGridFallback">> \o r.events
           /\ staleSeen' = IF \E i \in 1..Len(r.events) : r.events[i] = "stale"
                           THEN r.stale ELSE staleSeen
    /\ pc' = "done"
    /\ UNCHANGED <<now, puppeteerBreaker, env, options, attempt, entry, scrapes>>
    /\ UNCHANGED breakerVars
    /\ UNCHANGED <<pipeVars, normVars, libVars>>

(* The caller receives the result; the worker is idle until the next run *)
Return ==
    /\ pc = "done"
    /\ pc' = "idle"
    /\ scrapes' = scrapes + 1
    /\ options' = NoOptions
    /\ attempt' = 0
    /\ ret' = <<>>
    /\ threw' = FALSE
    /\ trace' = <<>>
    /\ staleSeen' = <<>>
    /\ entry' = NoEntry
    /\ env' = NoEnv
    /\ UNCHANGED <<now, puppeteerBreaker, proxyGridBreaker, audio_trends>>
    /\ UNCHANGED breakerVars
    /\ UNCHANGED <<pipeVars, normVars, libVars>>

(* Time passes between two runs *)
Tick(d) ==
    /\ pc = "idle"
    /\ now + d <= MaxTime
    /\ now' = now + d
    /\ UNCHANGED workerVars
    /\ UNCHANGED breakerVars
    /\ UNCHANGED <<pipeVars, normVars, libVars>>

Next ==
    \/ \E e \in Envs, opts \in Options, order \in StaleOrders(audio_trends),
          dbRead \in Outcomes :
          Enter(e, opts, order, dbRead) /\ UNCHANGED request
    \/ \E out \in LiveOutcomes, dbWrite \in Outcomes : PrimaryAttempt(out, dbWrite)
    \/ Sleep
    \/ \E sec \in LiveOutcomes, order \in StaleOrders(audio_trends),
          dbRead \in Outcomes, dbWrite \in Outcomes, alertOut \in Outcomes :
          Fallback(sec, order, dbRead, dbWrite, alertOut)
    \/ Return
    \/ \E d \in TickSteps : Tick(d)

Spec == Init /\ [][Next]_vars

TypeOK ==
    /\ pc \in {"idle", "primary", "sleep", "fallback", "done"}
    /\ attempt \in 0..MAX_RETRIES + 1
    /\ threw \in BOOLEAN

----------------------------------------------------------------------------
(* A circuit breaker driven directly through canExecute, recordSuccess and *)
(* recordFailure, in either implementation                                 *)

Impls == {"worker", "lib"}

Timeout(i) == IF i = "worker" THEN CIRCUIT_TIMEOUT ELSE CIRCUIT_BREAKER_CONFIG.timeout

Threshold(i) == IF i = "worker" THEN CIRCUIT_THRESHOLD ELSE CIRCUIT_BREAKER_CONFIG.threshold

CanExecute(i, b, t) == IF i = "worker" THEN canExecuteCircuit(b, t) ELSE canExecute(b, t)

RecordSuccess(i, b) == IF i = "worker" THEN recordCircuitSuccess(b) ELSE recordSuccess(b)

RecordFailure(i, b, t) == IF i = "worker" THEN recordCircuitFailure(b, t) ELSE recordFailure(b, t)

BreakerKind(b, t) ==
    IF ~b.isOpen THEN "closed"
    ELSE IF t < b.nextAttemptTime THEN "openEarly" ELSE "openLate"

InitB ==
    /\ now = 0
    /\ puppeteerBreaker = InitBreaker
    /\ proxyGridBreaker = InitBreaker
    /\ audio_trends = {}
    /\ env = NoEnv
    /\ pc = "idle"
    /\ options = NoOptions
    /\ attempt = 0
    /\ ret = <<>>
    /\ threw = FALSE
    /\ trace = <<>>
    /\ staleSeen = <<>>
    /\ entry = NoEntry
    /\ scrapes = 0
    /\ impl \in Impls
    /\ cb = InitBreaker
    /\ lastCall = NoCall
    /\ audio_trend_history = {}
    /\ hashtags = {}
    /\ ppc = "idle"
    /\ run = NoRun
    /\ result = NoResult
    /\ request = NoRequest
    /\ runs = <<>>
    /\ normIn = <<>>
    /\ normOut = NoOutput
    /\ LibIdle

BCanExecute ==
    /\ LET r == CanExecute(impl, cb, now)
           through == cb.isOpen /\ r.ok
       IN  /\ cb' = r.breaker
           /\ lastCall' = [lastCall EXCEPT
                  !.op = "canExecute",
                  !.streak = IF through THEN 0 ELSE @,
                  !.phase = IF through THEN "halfOpen" ELSE @]
    /\ UNCHANGED <<now, impl>>
    /\ UNCHANGED workerVars
    /\ UNCHANGED <<pipeVars, normVars, libVars>>

BRecordSuccess ==
    /\ cb' = RecordSuccess(impl, cb)
    /\ lastCall' = [lastCall EXCEPT
           !.op = "recordSuccess", !.streak = 0,
           !.from = BreakerKind(cb, now), !.phase = "none"]
    /\ UNCHANGED <<now, impl>>
    /\ UNCHANGED workerVars
    /\ UNCHANGED <<pipeVars, normVars, libVars>>

BRecordFailure ==
    /\ cb.failureCount < MaxFailures
    /\ cb' = RecordFailure(impl, cb, now)
    /\ lastCall' = [lastCall EXCEPT
           !.op = "recordFailure",
           !.streak = @ + 1,
           !.at5 = IF lastCall.streak + 1 = 5 THEN now ELSE @,
           !.phase = IF @ = "halfOpen" THEN "halfOpenFailed" ELSE "none"]
    /\ UNCHANGED <<now, impl>>
    /\ UNCHANGED workerVars
    /\ UNCHANGED <<pipeVars, normVars, libVars>>

BTick ==
    /\ now + CIRCUIT_BREAKER_CONFIG.timeout <= MaxBreakerTime
    /\ now' = now + CIRCUIT_BREAKER_CONFIG.timeout
    /\ UNCHANGED <<impl, cb, lastCall>>
    /\ UNCHANGED workerVars
    /\ UNCHANGED <<pipeVars, normVars, libVars>>

NextB == BCanExecute \/ BRecordSuccess \/ BRecordFailure \/ BTick

BreakerSpec == InitB /\ [][NextB]_vars

----------------------------------------------------------------------------
(* normalizeTrends (src/src/worker/ai-tagger.ts), applied to one input list *)

(* .slice(0, 50) *)
NORMALIZED_MAX == 50

(* length of the enumerated input lists, and by how many items the long    *)
(* input lists exceed NORMALIZED_MAX                                       *)
MaxNormLen == 3

LongExtra == 2

DedupeKeepsAll(s) == s

(* items.forEach(item => { if (!deduped.has(item.id)) deduped.set(...) }); *)
(* Array.from(deduped.values()): the first item of each id, in the order   *)
(* in which the ids were first seen                                        *)
DedupeById(s) ==
    LET keep == {i \in 1..Len(s) : \A j \in 1..(i - 1) : s[j].id # s[i].id}
        nth(k) == CHOOSE i \in keep : Cardinality({j \in keep : j <= i}) = k
    IN  [k \in 1..Cardinality(keep) |-> s[nth(k)]]

(* .sort((a, b) => a.rank - b.rank): Array.prototype.sort is stable, so an *)
(* item's position is the number of items of smaller rank, or of equal     *)
(* rank and not after it                                                   *)
SortByRank(s) ==
    LET pos(i) == Cardinality({j \in 1..Len(s) :
                      \/ s[j].rank < s[i].rank
                      \/ (s[j].rank = s[i].rank /\ j <= i)})
    IN  [k \in 1..Len(s) |-> s[CHOOSE i \in 1..Len(s) : pos(i) = k]]

normalizeTrendsSliceFirst(items) ==
    Rerank(SortByRank(Take(DedupeById(items), NORMALIZED_MAX)))

normalizeTrends(items) ==
    Rerank(Take(SortByRank(DedupeById(items)), NORMALIZED_MAX))

(* Input lists: every list of at most MaxNormLen items over three ids,     *)
(* three ranks and two titles, and lists of NORMALIZED_MAX and more items  *)
(* in descending rank order whose ids repeat after m items                 *)
NormItems == [id : 1..3, rank : 1..3, title : {"x", "y"}]

ShortInputs == UNION {[1..n -> NormItems] : n \in 0..MaxNormLen}

LongInputs ==
    {[i \in 1..n |-> [id |-> ((i - 1) % m) + 1, rank |-> n + 1 - i,
                      title |-> IF i <= m THEN "x" ELSE "y"]]
       : n \in NORMALIZED_MAX..NORMALIZED_MAX + LongExtra,
         m \in NORMALIZED_MAX - 1..NORMALIZED_MAX + LongExtra}

NormInputs == ShortInputs \cup LongInputs

InitN ==
    /\ now = 0
    /\ puppeteerBreaker = InitBreaker
    /\ proxyGridBreaker = InitBreaker
    /\ audio_trends = {}
    /\ env = NoEnv
    /\ pc = "idle"
    /\ options = NoOptions
    /\ attempt = 0
    /\ ret = <<>>
    /\ threw = FALSE
    /\ trace = <<>>
    /\ staleSeen = <<>>
    /\ entry = NoEntry
    /\ scrapes = 0
    /\ impl = "worker"
    /\ cb = InitBreaker
    /\ lastCall = NoCall
    /\ audio_trend_history = {}
    /\ hashtags = {}
    /\ ppc = "idle"
    /\ run = NoRun
    /\ result = NoResult
    /\ request = NoRequest
    /\ runs = <<>>
    /\ normIn \in NormInputs
    /\ normOut = NoOutput
    /\ LibIdle

Normalize ==
    /\ ~normOut.applied
    /\ normOut' = [applied |-> TRUE, val |-> normalizeTrends(normIn)]
    /\ UNCHANGED normIn
    /\ UNCHANGED <<now, workerVars, breakerVars, pipeVars, libVars>>

NextN == Normalize

NormSpec == InitN /\ [][NextN]_vars

----------------------------------------------------------------------------
(* runPipeline (src/src/worker/ai-tagger.ts): one run is the scrape above, *)
(* then normalisation, the two lookups, the tagging loop, the batch and    *)
(* the hashtag ingest.  None of the awaits of runPipeline is inside a      *)
(* try/catch: a throwing lookup or batch makes runPipeline throw.          *)

DEFAULT_TAGS == [genre |-> "unknown", vibe |-> "mixed"]

(* Number(value ?? "15") and Math.min(parsed, 50) *)
DEFAULT_TAG_LIMIT == 15

MAX_TAG_LIMIT == 50

(* env.AI_TAG_LIMIT: unset, or a string that Number() turns into NaN or    *)
(* into a number, which need not be an integer: a number is kept as its    *)
(* double, in halves                                                       *)
TagLimits == {NoLimit,
              [given |-> TRUE, finite |-> FALSE, halves |-> 0]}
             \cup {[given |-> TRUE, finite |-> TRUE, halves |-> h] : h \in {0, 2, 3, 120}}

(* the limit, in halves *)
parseTagLimit(value) ==
    LET parsed == IF value.given THEN value
                  ELSE [given |-> TRUE, finite |-> TRUE, halves |-> 2 * DEFAULT_TAG_LIMIT]
    IN  IF ~parsed.finite \/ parsed.halves <= 0 THEN 2 * DEFAULT_TAG_LIMIT
        ELSE Min(parsed.halves, 2 * MAX_TAG_LIMIT)

Missing(tag, placeholder) == tag = "null" \/ tag = placeholder

shouldTagAlways(genre, vibe) == TRUE

shouldTag(genre, vibe) ==
    Missing(genre, DEFAULT_TAGS.genre) \/ Missing(vibe, DEFAULT_TAGS.vibe)

(* What ai.run does for one item: it throws, or answers with tags; keyword *)
(* is the vibe of the first FALLBACK_KEYWORDS token found in the title, if *)
(* any                                                                     *)
AiOutcomes == {[threw |-> TRUE, genre |-> "none", vibe |-> "none", keyword |-> "none"],
               [threw |-> FALSE, genre |-> "rap", vibe |-> "chill", keyword |-> "none"]}

heuristicTags(keyword) ==
    [genre |-> DEFAULT_TAGS.genre,
     vibe |-> IF keyword = "none" THEN DEFAULT_TAGS.vibe ELSE keyword]

(* try { ai.run(...) } catch { return heuristicTags(title, author) } *)
tagAudioWithAI(ai) ==
    IF ai.threw THEN heuristicTags(ai.keyword)
    ELSE [genre |-> ai.genre, vibe |-> ai.vibe]

(* SELECT id, genre, vibe FROM audio_trends WHERE id IN (...) *)
getExistingTagMap(T, ids) ==
    {[id |-> r.id, genre |-> r.genre, vibe |-> r.vibe] : r \in {x \in T : x.id \in ids}}

getLatestHistoryMapOldest(H, ids) ==
    {h \in H : h.id \in ids /\ \A g \in H : g.id = h.id => g.snapshot_at >= h.snapshot_at}

(* the rows of greatest snapshot_at per id *)
getLatestHistoryMap(H, ids) ==
    {h \in H : h.id \in ids /\ \A g \in H : g.id = h.id => g.snapshot_at <= h.snapshot_at}

(* existingTags?.genre ?? null *)
ExistingTag(tagMap, id, field) ==
    IF \E r \in tagMap : r.id = id
    THEN (CHOOSE r \in tagMap : r.id = id)[field]
    ELSE "null"

WarningAsSuccess(source) ==
    [status |-> "success", count |-> 0, top_song |-> "null", tags_generated |-> 0,
     source |-> source, hashtag_ingest |-> "none", threw |-> FALSE]

Warning(source) ==
    [status |-> "warning", count |-> 0, top_song |-> "null", tags_generated |-> 0,
     source |-> source, hashtag_ingest |-> "none", threw |-> FALSE]

(* the exception of an await leaves runPipeline: there is no result *)
Thrown == [status |-> "none", count |-> 0, top_song |-> "null", tags_generated |-> 0,
           source |-> "none", hashtag_ingest |-> "none", threw |-> TRUE]

(* The statements of the batch: per item one upsert into audio_trends and  *)
(* one insert into audio_trend_history, each bound to the timestamp; a     *)
(* column a statement does not bind is "n/a"                               *)
TrendStatement(item, genre, vibe, t) ==
    [table |-> "audio_trends", id |-> item.id, rank |-> item.rank,
     genre |-> genre, vibe |-> vibe, at |-> t]

HistoryStatement(item, t) ==
    [table |-> "audio_trend_history", id |-> item.id, rank |-> item.rank,
     genre |-> "n/a", vibe |-> "n/a", at |-> t]

Into(stmts, table) == {i \in 1..Len(stmts) : stmts[i].table = table}

InsertTrends(T, stmts) ==
    T \cup {[id |-> stmts[i].id, rank |-> stmts[i].rank, updated_at |-> stmts[i].at,
             genre |-> stmts[i].genre, vibe |-> stmts[i].vibe, growth_rate |-> "computed"]
            : i \in Into(stmts, "audio_trends")}

(* INSERT INTO audio_trends ... ON CONFLICT(platform, id) DO UPDATE SET    *)
(* every column                                                            *)
UpsertTrends(T, stmts) ==
    LET ids == {stmts[i].id : i \in Into(stmts, "audio_trends")}
    IN  {r \in T : r.id \notin ids}
        \cup {[id |-> stmts[i].id, rank |-> stmts[i].rank, updated_at |-> stmts[i].at,
               genre |-> stmts[i].genre, vibe |-> stmts[i].vibe, growth_rate |-> "computed"]
              : i \in Into(stmts, "audio_trends")}

HistoryRowsOwnClock(stmts) ==
    {[id |-> stmts[i].id, snapshot_at |-> stmts[i].at + i, rank |-> stmts[i].rank]
       : i \in Into(stmts, "audio_trend_history")}

(* INSERT INTO audio_trend_history ... *)
HistoryRows(stmts) ==
    {[id |-> stmts[i].id, snapshot_at |-> stmts[i].at, rank |-> stmts[i].rank]
       : i \in Into(stmts, "audio_trend_history")}

(* PRIMARY KEY (platform, id, snapshot_at) of audio_trend_history *)
KeyConflict(H, stmts) ==
    \E h \in H : \E r \in HistoryRows(stmts) :
        h.id = r.id /\ h.snapshot_at = r.snapshot_at

BatchTrendsReplacesHistory(T, H, stmts, dbOut) ==
    IF dbOut = "throw" \/ KeyConflict(H, stmts)
    THEN [threw |-> TRUE, table |-> T, history |-> H]
    ELSE [threw |-> FALSE, table |-> UpsertTrends(T, stmts),
          history |-> HistoryRows(stmts)]

(* env.DB.batch(statements): one transaction *)
BatchTrends(T, H, stmts, dbOut) ==
    IF dbOut = "throw" \/ KeyConflict(H, stmts)
    THEN [threw |-> TRUE, table |-> T, history |-> H]
    ELSE [threw |-> FALSE, table |-> UpsertTrends(T, stmts),
          history |-> H \cup HistoryRows(stmts)]

(* What the hashtag endpoint and the hashtag batch do *)
HashtagOutcomes == {"skipped", "notOk", "malformed", "empty", "fetchThrow",
                    "batchThrow", "ok"}

maybeIngestHashtagsUncaught(HT, out, t) ==
    CASE out = "skipped" -> [threw |-> FALSE, status |-> "skipped", table |-> HT]
      [] out = "empty"   -> [threw |-> FALSE, status |-> "empty", table |-> HT]
      [] out = "notOk"   -> [threw |-> FALSE, status |-> "error", table |-> HT]
      [] out = "ok"      -> [threw |-> FALSE, status |-> "success",
                             table |-> {r \in HT : r.slug # "tag"}
                                       \cup {[slug |-> "tag", updated_at |-> t]}]
      [] OTHER           -> [threw |-> TRUE, status |-> "none", table |-> HT]

(* the whole body is in a try/catch; one hashtag "tag" stands for the      *)
(* feed; "malformed" is a body that response.json() rejects                *)
maybeIngestHashtags(HT, out, t) ==
    CASE out = "skipped" -> [threw |-> FALSE, status |-> "skipped", table |-> HT]
      [] out = "empty"   -> [threw |-> FALSE, status |-> "empty", table |-> HT]
      [] out = "ok"      -> [threw |-> FALSE, status |-> "success",
                             table |-> {r \in HT : r.slug # "tag"}
                                       \cup {[slug |-> "tag", updated_at |-> t]}]
      [] OTHER           -> [threw |-> FALSE, status |-> "error", table |-> HT]

(* The tables and the log of runs of an idle worker: at time 0 before any  *)
(* run; at time 0 after one run whose primary scraper returned the live    *)
(* list on an empty store and whose batch committed, the classifier having *)
(* answered for both items, or thrown for the first and answered for the   *)
(* second; and after a second such run, whose first primary attempt threw  *)
(* and whose second, one backoff sleep later, returned the same list       *)
FirstRun == [status |-> "success", threw |-> FALSE, timestamp |-> 0,
             acquired |-> <<[id |-> "b", rank |-> 1], [id |-> "a", rank |-> 2]>>]

FirstHistory == {[id |-> "b", snapshot_at |-> 0, rank |-> 1],
                 [id |-> "a", snapshot_at |-> 0, rank |-> 2]}

SecondRun == [FirstRun EXCEPT !.timestamp = INITIAL_RETRY_DELAY]

SecondHistory ==
    FirstHistory \cup {[h EXCEPT !.snapshot_at = INITIAL_RETRY_DELAY] : h \in FirstHistory}

InitPipelines ==
    {[now |-> 0, audio_trends |-> T, audio_trend_history |-> {}, runs |-> <<>>]
       : T \in InitStores}
    \cup {[now |-> 0,
            audio_trends |->
              {[id |-> "b", rank |-> 1, updated_at |-> 0, genre |-> t.genre,
                vibe |-> t.vibe, growth_rate |-> "computed"],
               [id |-> "a", rank |-> 2, updated_at |-> 0, genre |-> "rap",
                vibe |-> "chill", growth_rate |-> "computed"]},
            audio_trend_history |-> FirstHistory,
            runs |-> <<FirstRun>>]
           : t \in {tagAudioWithAI(ai) : ai \in AiOutcomes}}
    \cup {[now |-> INITIAL_RETRY_DELAY,
            audio_trends |->
              {[id |-> "b", rank |-> 1, updated_at |-> INITIAL_RETRY_DELAY,
                genre |-> "rap", vibe |-> "chill", growth_rate |-> "computed"],
               [id |-> "a", rank |-> 2, updated_at |-> INITIAL_RETRY_DELAY,
                genre |-> "rap", vibe |-> "chill", growth_rate |-> "computed"]},
            audio_trend_history |-> SecondHistory,
            runs |-> <<FirstRun, SecondRun>>]}

InitP ==
    /\ puppeteerBreaker = InitBreaker
    /\ proxyGridBreaker = InitBreaker
    /\ \E p \in InitPipelines :
          /\ now = p.now
          /\ audio_trends = p.audio_trends
          /\ audio_trend_history = p.audio_trend_history
          /\ runs = p.runs
    /\ env = NoEnv
    /\ pc = "idle"
    /\ options = NoOptions
    /\ attempt = 0
    /\ ret = <<>>
    /\ threw = FALSE
    /\ trace = <<>>
    /\ staleSeen = <<>>
    /\ entry = NoEntry
    /\ scrapes = 0
    /\ impl = "worker"
    /\ cb = InitBreaker
    /\ lastCall = NoCall
    /\ hashtags = {}
    /\ ppc = "idle"
    /\ run = NoRun
    /\ result = NoResult
    /\ request = NoRequest
    /\ normIn = <<>>
    /\ normOut = NoOutput
    /\ LibIdle

(* runPipeline calls scrapeTikTokTrends with its own options (lines 573-577) *)
PEnter(e, opts, order, dbRead) ==
    /\ ppc = "idle"
    /\ Enter(e, opts, order, dbRead)
    /\ UNCHANGED request

(* From the scrape's return to the tagging loop (lines 573-616) *)
PBegin(histOut, tagOut, limit) ==
    /\ pc = "done"
    /\ ppc = "idle"
    /\ LET normalized == normalizeTrends(ret)
           ids == {normalized[i].id : i \in 1..Len(normalized)}
           stop(r) == /\ result' = r
                      /\ ppc' = "pdone"
                      /\ run' = [run EXCEPT !.normalized = normalized, !.timestamp = now]
       IN  IF threw THEN stop(Thrown)
           ELSE IF Len(ret) = 0 THEN stop(Warning("stale"))
           ELSE IF Len(normalized) = 0 THEN stop(Warning("puppeteer"))
           ELSE IF histOut = "throw" \/ tagOut = "throw" THEN stop(Thrown)
           ELSE /\ run' = [normalized |-> normalized, timestamp |-> now,
                           limit |-> limit,
                           maxTags |-> parseTagLimit(limit), tagsGenerated |-> 0,
                           idx |-> 1, statements |-> <<>>, tagCalls |-> <<>>,
                           growthCalls |-> <<>>, batches |-> 0,
                           tagMap |-> getExistingTagMap(audio_trends, ids),
                           historyMap |-> getLatestHistoryMap(audio_trend_history, ids)]
                /\ ppc' = "items"
                /\ UNCHANGED result
    /\ UNCHANGED <<audio_trend_history, hashtags, runs, request>>
    /\ UNCHANGED <<now, workerVars, breakerVars, normVars, libVars>>

(* One iteration of the loop over normalized (lines 618-667); maxTags is   *)
(* in halves                                                               *)
PItem(ai) ==
    /\ ppc = "items"
    /\ LET item == run.normalized[run.idx]
           genre0 == ExistingTag(run.tagMap, item.id, "genre")
           vibe0 == ExistingTag(run.tagMap, item.id, "vibe")
           tagging == shouldTag(genre0, vibe0) /\ 2 * run.tagsGenerated < run.maxTags
           aiTags == tagAudioWithAI(ai)
           history == IF \E h \in run.historyMap : h.id = item.id
                      THEN CHOOSE h \in run.historyMap : h.id = item.id
                      ELSE NoHistory
           genre == IF tagging THEN aiTags.genre ELSE genre0
           vibe == IF tagging THEN aiTags.vibe ELSE vibe0
       IN  /\ run' = [run EXCEPT
                 !.statements = @ \o <<TrendStatement(item, genre, vibe, run.timestamp),
                                       HistoryStatement(item, run.timestamp)>>,
                 !.growthCalls = Append(@, [id |-> item.id, history |-> history]),
                 !.tagsGenerated = IF tagging THEN @ + 1 ELSE @,
                 !.tagCalls = IF tagging
                              THEN Append(@, [id |-> item.id, threw |-> ai.threw])
                              ELSE @,
                 !.idx = @ + 1]
           /\ ppc' = IF run.idx = Len(run.normalized) THEN "batch" ELSE "items"
    /\ UNCHANGED <<audio_trend_history, hashtags, result, runs, request>>
    /\ UNCHANGED <<now, workerVars, breakerVars, normVars, libVars>>

(* The batch, the hashtag ingest and the result (lines 669-681) *)
PCommit(dbOut, hashOut) ==
    /\ ppc = "batch"
    /\ LET b == BatchTrends(audio_trends, audio_trend_history, run.statements, dbOut)
           h == maybeIngestHashtags(hashtags, hashOut, run.timestamp)
       IN  IF b.threw
           THEN /\ result' = Thrown
                /\ UNCHANGED <<audio_trends, audio_trend_history, hashtags>>
           ELSE /\ audio_trends' = b.table
                /\ audio_trend_history' = b.history
                /\ hashtags' = h.table
                /\ result' = IF h.threw THEN Thrown
                              ELSE [status |-> "success",
                                    count |-> Len(run.normalized),
                                    top_song |-> run.normalized[1].id,  \* its title
                                    tags_generated |-> run.tagsGenerated,
                                    source |-> IF options.forceProxyGrid
                                               THEN "proxy-grid" ELSE "puppeteer",
                                    hashtag_ingest |-> h.status, threw |-> FALSE]
    /\ run' = [run EXCEPT !.batches = @ + 1]
    /\ ppc' = "pdone"
    /\ UNCHANGED <<runs, request>>
    /\ UNCHANGED <<now, puppeteerBreaker, proxyGridBreaker, env, pc, options,
                   attempt, ret, threw, trace, staleSeen, entry, scrapes>>
    /\ UNCHANGED <<breakerVars, normVars, libVars>>

(* runPipeline has returned or thrown; the worker is idle until the next   *)
(* run                                                                     *)
PReturn ==
    /\ ppc = "pdone"
    /\ runs' = Append(runs, [status |-> result.status, threw |-> result.threw,
                             timestamp |-> run.timestamp, acquired |-> ret])
    /\ ppc' = "idle"
    /\ run' = NoRun
    /\ result' = NoResult
    /\ request' = NoRequest
    /\ pc' = "idle"
    /\ options' = NoOptions
    /\ attempt' = 0
    /\ ret' = <<>>
    /\ threw' = FALSE
    /\ trace' = <<>>
    /\ staleSeen' = <<>>
    /\ entry' = NoEntry
    /\ env' = NoEnv
    /\ scrapes' = scrapes + 1
    /\ UNCHANGED <<now, puppeteerBreaker, proxyGridBreaker, audio_trends,
                   audio_trend_history, hashtags>>
    /\ UNCHANGED <<breakerVars, normVars, libVars>>

(* lib/db.ts: key.includes(pattern) on the two keys *)
Includes(key, pattern) ==
    \/ pattern = ""
    \/ pattern = "trends" /\ key = "v1:trends:50"
    \/ pattern = "audio" /\ key = "v1:audio:a"

(* invalidateCache(pattern): delete every key that includes the pattern *)
invalidateCache(cache, pattern) ==
    [k \in DOMAIN cache |->
        IF Includes(k, pattern) THEN NoQueryEntry ELSE cache[k]]

(* clearCache(): queryCache.clear() *)
clearQueryCache(cache) == [k \in DOMAIN cache |-> NoQueryEntry]

(* the queries that await their query function with the rows already read *)
(* while the keys that include the pattern are invalidated                 *)
Crossing(qs, pattern) ==
    [c \in DOMAIN qs |->
        IF qs[c].pc = "read" /\ Includes(qs[c].key, pattern)
        THEN [qs[c] EXCEPT !.crossed = TRUE] ELSE qs[c]]

(* reloadAudioTrends(records) (src/lib/db-utils.ts): DELETE FROM           *)
(* audio_trends, then one upsert per record, run in parallel and not in a  *)
(* transaction: done is the set of records whose upsert completed          *)
ReloadRecords == {[id |-> "a", rank |-> 2, updated_at |-> 0,
                   genre |-> "pop", vibe |-> "null", growth_rate |-> "computed"],
                  [id |-> "b", rank |-> 1, updated_at |-> 0,
                   genre |-> "null", vibe |-> "null", growth_rate |-> "null"]}

reloadAudioTrends(T, delOut, done) ==
    IF delOut = "throw" THEN T ELSE done

Reload(delOut, done) ==
    /\ pc = "idle"
    /\ ppc = "idle"
    /\ audio_trends' = reloadAudioTrends(audio_trends, delOut, done)
    /\ queryCache' = IF delOut # "throw" /\ done = ReloadRecords
                     THEN invalidateCache(queryCache, "") ELSE queryCache
    /\ queries' = IF delOut # "throw" /\ done = ReloadRecords
                  THEN Crossing(queries, "") ELSE queries
    /\ UNCHANGED <<now, puppeteerBreaker, proxyGridBreaker, env, pc, options,
                   attempt, ret, threw, trace, staleSeen, entry, scrapes>>
    /\ UNCHANGED <<audio_trend_history, hashtags, ppc, run, result, runs, request>>
    /\ UNCHANGED <<breakerVars, normVars, fallbackVars, clientVars, cronVars, rateVars>>

(* In a pipeline run the alert webhook is not configured, and the primary  *)
(* scraper throws or returns items                                         *)
PipelineEnvs == {e \in Envs : ~e.SLACK_WEBHOOK_URL}

PrimaryOutcomes == {o \in LiveOutcomes : o.threw \/ Len(o.val) > 0}

NextP ==
    \/ \E e \in PipelineEnvs, opts \in Options, order \in StaleOrders(audio_trends),
          dbRead \in Outcomes :
          PEnter(e, opts, order, dbRead)
    \/ \E out \in PrimaryOutcomes, dbWrite \in Outcomes : PrimaryAttempt(out, dbWrite)
    \/ Sleep
    \/ \E sec \in LiveOutcomes, order \in StaleOrders(audio_trends),
          dbRead \in Outcomes, dbWrite \in Outcomes, alertOut \in Outcomes :
          Fallback(sec, order, dbRead, dbWrite, alertOut)
    \/ \E histOut \in Outcomes, tagOut \in Outcomes, limit \in TagLimits :
          PBegin(histOut, tagOut, limit)
    \/ \E ai \in AiOutcomes : PItem(ai)
    \/ \E dbOut \in Outcomes, hashOut \in HashtagOutcomes : PCommit(dbOut, hashOut)
    \/ PReturn
    \/ \E delOut \in Outcomes, done \in SUBSET ReloadRecords : Reload(delOut, done)
    \/ \E d \in TickSteps : Tick(d)

PipelineSpec == InitP /\ [][NextP]_vars

----------------------------------------------------------------------------
(* The two callers of runPipeline: the cron handler scheduled and the      *)
(* manual trigger of the fetch handler.  A manual request may carry the    *)
(* flags forceProxyGrid and useStaleFallback.                              *)

Requests == [kind : {"manual"}, authorized : BOOLEAN,
             forceProxyGrid : BOOLEAN, useStaleFallback : BOOLEAN]

(* runPipeline(env, { manual: true }): with the defaults of line 571 *)
manualOptions(req) == NoOptions

(* runPipeline(env, { scheduled: true }) *)
Scheduled(e, order, dbRead) ==
    /\ ppc = "idle"
    /\ request' = [NoRequest EXCEPT !.kind = "scheduled", !.authorized = TRUE]
    /\ Enter(e, NoOptions, order, dbRead)

(* fetch on a path other than /health and /api/v1: isAuthorized, then      *)
(* runPipeline; an unauthorized request is answered without a run          *)
Fetch(req, e, order, dbRead) ==
    /\ ppc = "idle"
    /\ pc = "idle"
    /\ IF req.authorized
       THEN /\ request' = req
            /\ Enter(e, manualOptions(req), order, dbRead)
       ELSE /\ request' = [req EXCEPT !.kind = "unauthorized"]
            /\ UNCHANGED <<now, workerVars, breakerVars, normVars, libVars>>
            /\ UNCHANGED <<audio_trend_history, hashtags, ppc, run, result, runs>>

NextT ==
    \/ \E e \in PipelineEnvs, order \in StaleOrders(audio_trends), dbRead \in Outcomes :
          Scheduled(e, order, dbRead)
    \/ \E req \in Requests, e \in PipelineEnvs, order \in StaleOrders(audio_trends),
          dbRead \in Outcomes :
          Fetch(req, e, order, dbRead)
    \/ \E out \in PrimaryOutcomes, dbWrite \in Outcomes : PrimaryAttempt(out, dbWrite)
    \/ Sleep
    \/ \E sec \in LiveOutcomes, order \in StaleOrders(audio_trends),
          dbRead \in Outcomes, dbWrite \in Outcomes, alertOut \in Outcomes :
          Fallback(sec, order, dbRead, dbWrite, alertOut)
    \/ \E histOut \in Outcomes, tagOut \in Outcomes, limit \in TagLimits :
          PBegin(histOut, tagOut, limit)
    \/ \E ai \in AiOutcomes : PItem(ai)
    \/ \E dbOut \in Outcomes, hashOut \in HashtagOutcomes : PCommit(dbOut, hashOut)
    \/ PReturn

TriggerSpec == InitP /\ [][NextT]_vars

----------------------------------------------------------------------------
(* lib/fallback-data.ts: the read path of the site with its three          *)
(* fallbacks.  A row is its id.                                            *)

CACHE_MAX_AGE == 3600000

MaxFallbackTime == 5400000

FallbackStep == CACHE_MAX_AGE \div 2

Limits == {0, 1, 2, 50}

BackupData == {<<>>, <<"c">>, <<"c", "d", "e">>}

(* getAudioTrends(limit): throws, or the first limit rows of the table *)
D1Tables == {<<>>, <<"a", "b">>}

D1Outcomes(limit) ==
    {[threw |-> TRUE, rows |-> <<>>]} \cup
    {[threw |-> FALSE, rows |-> Take(t, limit)] : t \in D1Tables}

FreshInclusive(c, t) == t - c.timestamp <= CACHE_MAX_AGE

(* const age = Date.now() - (inMemoryCache.timestamp ?? 0); age < 3600000 *)
Fresh(c, t) == t - c.timestamp < CACHE_MAX_AGE

getTrendsWithFallbackMemoryFirst(limit, d1, kvAvail, kvOut, kv, c, t) ==
    IF ~d1.threw /\ Len(d1.rows) > 0
    THEN [source |-> "d1", rows |-> d1.rows, threw |-> FALSE]
    ELSE IF c.present /\ Len(c.trends) > 0 /\ Fresh(c, t)
    THEN [source |-> "memory", rows |-> Take(c.trends, limit), threw |-> FALSE]
    ELSE IF kvAvail /\ kvOut = "ok" /\ kv.present /\ Len(kv.trends) > 0
    THEN [source |-> "kv", rows |-> Take(kv.trends, limit), threw |-> FALSE]
    ELSE [source |-> "empty", rows |-> <<>>, threw |-> FALSE]

(* d1: what getAudioTrends did; kvAvail: getKV() returned a namespace;     *)
(* kvOut: what kv.get did; kv: the stored backup; c: inMemoryCache; t: the *)
(* clock                                                                    *)
getTrendsWithFallback(limit, d1, kvAvail, kvOut, kv, c, t) ==
    IF ~d1.threw /\ Len(d1.rows) > 0
    THEN [source |-> "d1", rows |-> d1.rows, threw |-> FALSE]
    ELSE IF kvAvail /\ kvOut = "ok" /\ kv.present /\ Len(kv.trends) > 0
    THEN [source |-> "kv", rows |-> Take(kv.trends, limit), threw |-> FALSE]
    ELSE IF c.present /\ Len(c.trends) > 0 /\ Fresh(c, t)
    THEN [source |-> "memory", rows |-> Take(c.trends, limit), threw |-> FALSE]
    ELSE [source |-> "empty", rows |-> <<>>, threw |-> FALSE]

PutOutcomes == {"ok", "throwFirst", "throwLater"}

(* saveBackupToKV: without a namespace the in-memory cache is written;     *)
(* with one, three puts, and the in-memory cache when any of them throws   *)
SaveBackup(data, kvAvail, putOut) ==
    /\ served = NoServed
    /\ IF ~kvAvail
       THEN /\ inMemoryCache' = [present |-> TRUE, trends |-> data, timestamp |-> now]
            /\ UNCHANGED kvBackup
       ELSE /\ kvBackup' = IF putOut = "throwFirst" THEN kvBackup
                           ELSE [present |-> TRUE, trends |-> data]
            /\ inMemoryCache' = IF putOut = "ok" THEN inMemoryCache
                                ELSE [present |-> TRUE, trends |-> data, timestamp |-> now]
    /\ UNCHANGED <<now, served>>
    /\ UNCHANGED <<workerVars, breakerVars, pipeVars, normVars, clientVars, auxVars>>

GetTrends(limit, d1, kvAvail, kvOut) ==
    /\ served = NoServed
    /\ served' = getTrendsWithFallback(limit, d1, kvAvail, kvOut, kvBackup,
                                       inMemoryCache, now)
                  @@ [limit |-> limit, d1 |-> d1, kvAvail |-> kvAvail,
                      kvOut |-> kvOut, kv |-> kvBackup, cache |-> inMemoryCache,
                      at |-> now]
    /\ UNCHANGED <<now, inMemoryCache, kvBackup>>
    /\ UNCHANGED <<workerVars, breakerVars, pipeVars, normVars, clientVars, auxVars>>

(* warmupCache: both queries in one Promise.all, a failure leaves the      *)
(* cache as it was                                                         *)
WarmupCache(d1) ==
    /\ served = NoServed
    /\ inMemoryCache' = IF d1.threw THEN inMemoryCache
                        ELSE [present |-> TRUE, trends |-> d1.rows, timestamp |-> now]
    /\ UNCHANGED <<now, kvBackup, served>>
    /\ UNCHANGED <<workerVars, breakerVars, pipeVars, normVars, clientVars, auxVars>>

invalidateAllCaches ==
    /\ served = NoServed
    /\ \/ inMemoryCache # NoCache
       \/ \E k \in QueryKeys : queryCache[k].present
       \/ \E c \in Callers : queries[c].pc = "read"
    /\ queryCache' = clearQueryCache(queryCache)
    /\ queries' = Crossing(queries, "")
    /\ inMemoryCache' = NoCache
    /\ UNCHANGED <<now, kvBackup, served>>
    /\ UNCHANGED <<workerVars, breakerVars, pipeVars, normVars, clientVars, cronVars, rateVars>>

(* app/trends/page.tsx renders what the call returned *)
TrendsPage ==
    /\ served # NoServed
    /\ served' = NoServed
    /\ UNCHANGED <<now, inMemoryCache, kvBackup>>
    /\ UNCHANGED <<workerVars, breakerVars, pipeVars, normVars, clientVars, auxVars>>

FallbackTick ==
    /\ served = NoServed
    /\ now + FallbackStep <= MaxFallbackTime
    /\ now' = now + FallbackStep
    /\ UNCHANGED fallbackVars
    /\ UNCHANGED <<workerVars, breakerVars, pipeVars, normVars, clientVars, auxVars>>

InitF ==
    /\ now = 0
    /\ puppeteerBreaker = InitBreaker
    /\ proxyGridBreaker = InitBreaker
    /\ audio_trends = {}
    /\ env = NoEnv
    /\ pc = "idle"
    /\ options = NoOptions
    /\ attempt = 0
    /\ ret = <<>>
    /\ threw = FALSE
    /\ trace = <<>>
    /\ staleSeen = <<>>
    /\ entry = NoEntry
    /\ scrapes = 0
    /\ impl = "worker"
    /\ cb = InitBreaker
    /\ lastCall = NoCall
    /\ audio_trend_history = {}
    /\ hashtags = {}
    /\ ppc = "idle"
    /\ run = NoRun
    /\ result = NoResult
    /\ request = NoRequest
    /\ runs = <<>>
    /\ normIn = <<>>
    /\ normOut = NoOutput
    /\ LibIdle

NextF ==
    \/ \E data \in BackupData, kvAvail \in BOOLEAN, putOut \in PutOutcomes :
          SaveBackup(data, kvAvail, putOut)
    \/ \E limit \in Limits, kvAvail \in BOOLEAN, kvOut \in Outcomes :
          \E d1 \in D1Outcomes(limit) : GetTrends(limit, d1, kvAvail, kvOut)
    \/ \E d1 \in D1Outcomes(100) : WarmupCache(d1)
    \/ invalidateAllCaches
    \/ TrendsPage
    \/ FallbackTick

FallbackSpec == InitF /\ [][NextF]_vars

----------------------------------------------------------------------------
(* lib/proxy-grid.ts: the client of the secondary source, with its retry   *)
(* loop, its breaker (the variable cb, implementation "lib") and its       *)
(* response cache.  A batch is the list of its ids.                        *)

DEFAULT_RETRY_DELAY == 1000

MAX_RETRY_DELAY == 10000

PG_MAX_RETRIES == 3

CACHE_TTL == 4 * 60 * 60 * 1000

MaxCalls == 2

MaxClientTime == 14407000

ClientTicks == {CACHE_TTL}

calculateRetryDelayLinear(a) == DEFAULT_RETRY_DELAY * (a + 1)

(* the calculateRetryDelay of lib/proxy-grid.ts *)
calculateRetryDelayLib(a) == Min(DEFAULT_RETRY_DELAY * Pow2(a), MAX_RETRY_DELAY)

(* what one invocation of the wrapped operation can do: throw with a       *)
(* message, or return a parsed batch, possibly empty                       *)
AttemptOutcomes ==
    {[threw |-> TRUE, msg |-> m, val |-> <<>>] : m \in {"e1", "e2"}} \cup
    {[threw |-> FALSE, msg |-> "null", val |-> v] : v \in {<<>>, <<"x">>}}

RetryAfterAlways(a, retries) == "sleep"

(* fetchWithRetry after the failure of attempt a: sleep and go round, or   *)
(* leave the loop and throw                                                *)
RetryAfter(a, retries) == IF a < retries THEN "sleep" ELSE "throw"

RetryErrorFirst(outcomes, retries, lastError) ==
    [kind |-> "retries", attempts |-> retries + 1, cause |-> outcomes[1].msg]

(* throw new Error(`... failed after ${retries + 1} attempts: ${lastError.message}`) *)
RetryError(outcomes, retries, lastError) ==
    [kind |-> "retries", attempts |-> retries + 1, cause |-> lastError]

BreakerOpenError == [kind |-> "open", attempts |-> 0, cause |-> "null"]

Keys(fn) == IF fn = "tiktok" THEN {"tiktok-trends-default"} ELSE {"none", "other"}

RECURSIVE AfterFailures(_)
AfterFailures(n) == IF n = 0 THEN InitBreaker ELSE recordFailure(AfterFailures(n - 1), 0)

ClientBreakers == {AfterFailures(n) : n \in {0, 4, 5}}

ClientFrame ==
    /\ UNCHANGED <<impl, lastCall>>
    /\ UNCHANGED <<workerVars, pipeVars, normVars, fallbackVars, auxVars>>

(* entry of fetchTikTokTrendsFromProxyGrid (fn = "tiktok") and of          *)
(* fetchFromProxyGrid (fn = "generic"): cache look-up, then the breaker    *)
CBegin(fn, force, key) ==
    /\ client.pc = "idle"
    /\ client.calls < MaxCalls
    /\ LET call == [client EXCEPT !.fn = fn, !.force = force, !.key = key]
           hit  == /\ key # "none"
                   /\ ~force
                   /\ responseCache[key].present
                   /\ responseCache[key].expiresAt > now
           r    == canExecute(cb, now)
       IN  IF hit
           THEN /\ client' = [call EXCEPT !.pc = "done", !.fromCache = TRUE,
                                          !.out = responseCache[key].data]
                /\ UNCHANGED cb
           ELSE /\ cb' = r.breaker
                /\ client' = IF r.ok
                             THEN [call EXCEPT !.pc = "attempt", !.attempt = 0,
                                               !.before = r.breaker]
                             ELSE [call EXCEPT !.pc = "done", !.threw = TRUE,
                                               !.rejected = TRUE,
                                               !.message = BreakerOpenError]
    /\ UNCHANGED <<now, responseCache>>
    /\ ClientFrame

(* one round of the loop of fetchWithRetry, and what follows the loop      *)
CAttempt(out) ==
    /\ client.pc = "attempt"
    /\ LET outs == Append(client.outcomes, out)
           c1   == [client EXCEPT !.outcomes = outs]
           set  == [responseCache EXCEPT ![client.key] =
                       [present |-> TRUE, data |-> out.val,
                        expiresAt |-> now + CACHE_TTL]]
       IN  IF out.threw
           THEN /\ client' =
                     IF RetryAfter(client.attempt, PG_MAX_RETRIES) = "sleep"
                     THEN [c1 EXCEPT !.pc = "sleep", !.lastError = out.msg]
                     ELSE [c1 EXCEPT !.pc = "done", !.lastError = out.msg,
                                     !.threw = TRUE,
                                     !.message = RetryError(outs, PG_MAX_RETRIES, out.msg)]
                /\ UNCHANGED <<cb, responseCache>>
           ELSE /\ client' = [c1 EXCEPT !.pc = "done", !.out = out.val]
                /\ IF client.fn = "tiktok"
                   THEN /\ cb' = IF Len(out.val) > 0 THEN recordSuccess(cb)
                                 ELSE recordFailure(cb, now)
                        /\ responseCache' = set
                   ELSE /\ cb' = recordSuccess(cb)
                        /\ responseCache' = IF client.key # "none" THEN set
                                            ELSE responseCache
    /\ UNCHANGED now
    /\ ClientFrame

(* await sleep(delay) *)
CSleep ==
    /\ client.pc = "sleep"
    /\ LET delay == calculateRetryDelayLib(client.attempt)
       IN  /\ now' = now + delay
           /\ client' = [client EXCEPT !.pc = "attempt", !.attempt = @ + 1,
                                       !.sleeps = Append(@, delay)]
    /\ UNCHANGED <<cb, responseCache>>
    /\ ClientFrame

CReturn ==
    /\ client.pc = "done"
    /\ client' = [NoClient EXCEPT !.calls = client.calls + 1]
    /\ UNCHANGED <<now, cb, responseCache>>
    /\ ClientFrame

(* clearCache(): responseCache.clear() *)
clearCache ==
    /\ client.pc = "idle"
    /\ \E k \in CacheKeys : responseCache[k].present
    /\ responseCache' = [k \in CacheKeys |-> NoCached]
    /\ UNCHANGED <<now, cb, client>>
    /\ ClientFrame

CTick(d) ==
    /\ client.pc = "idle"
    /\ now + d <= MaxClientTime
    /\ now' = now + d
    /\ UNCHANGED <<cb, responseCache, client>>
    /\ ClientFrame

InitC ==
    /\ now = 0
    /\ puppeteerBreaker = InitBreaker
    /\ proxyGridBreaker = InitBreaker
    /\ audio_trends = {}
    /\ env = NoEnv
    /\ pc = "idle"
    /\ options = NoOptions
    /\ attempt = 0
    /\ ret = <<>>
    /\ threw = FALSE
    /\ trace = <<>>
    /\ staleSeen = <<>>
    /\ entry = NoEntry
    /\ scrapes = 0
    /\ impl = "lib"
    /\ cb \in ClientBreakers
    /\ lastCall = NoCall
    /\ audio_trend_history = {}
    /\ hashtags = {}
    /\ ppc = "idle"
    /\ run = NoRun
    /\ result = NoResult
    /\ request = NoRequest
    /\ runs = <<>>
    /\ normIn = <<>>
    /\ normOut = NoOutput
    /\ LibIdle

NextC ==
    \/ \E fn \in {"tiktok", "generic"}, force \in BOOLEAN :
          \E key \in Keys(fn) : CBegin(fn, force, key)
    \/ \E out \in AttemptOutcomes : CAttempt(out)
    \/ CSleep
    \/ CReturn
    \/ clearCache
    \/ \E d \in ClientTicks : CTick(d)

ClientSpec == InitC /\ [][NextC]_vars

----------------------------------------------------------------------------
(* The two retry loops on one clock: a scrape of the worker, then one call *)
(* of the proxy-grid client                                                *)

RBegin(fn, force, key) ==
    /\ pc = "idle"
    /\ scrapes = MaxScrapes
    /\ client.calls = 0
    /\ CBegin(fn, force, key)

NextR ==
    \/ \E e \in Envs, opts \in Options, order \in StaleOrders(audio_trends),
          dbRead \in Outcomes :
          Enter(e, opts, order, dbRead) /\ UNCHANGED request
    \/ \E out \in LiveOutcomes, dbWrite \in Outcomes : PrimaryAttempt(out, dbWrite)
    \/ Sleep
    \/ \E sec \in LiveOutcomes, order \in StaleOrders(audio_trends),
          dbRead \in Outcomes, dbWrite \in Outcomes, alertOut \in Outcomes :
          Fallback(sec, order, dbRead, dbWrite, alertOut)
    \/ Return
    \/ \E fn \in {"tiktok", "generic"}, force \in BOOLEAN :
          \E key \in Keys(fn) : RBegin(fn, force, key)
    \/ \E out \in AttemptOutcomes : CAttempt(out)
    \/ CSleep
    \/ CReturn

RetrySpec == InitC /\ [][NextR]_vars

----------------------------------------------------------------------------
(* Vocabulary of the properties *)

PrimaryEvents == {"primaryThrow", "primaryEmpty", "primaryData"}

PrimaryFailures == {"primaryThrow", "primaryEmpty"}

SecondaryEvents == {"secondaryThrow", "secondaryEmpty", "secondaryData"}

SecondaryFailures == {"secondaryThrow", "secondaryEmpty"}

(* ret is the list s with rank fields 1..Len(s) *)
(* the limit of a run as the specification words it, in halves: the       *)
(* configured value, 15 when absent or invalid, never more than 50         *)
LimitInHalves(v) ==
    IF v.given /\ v.finite /\ v.halves > 0 THEN Min(v.halves, 2 * 50) ELSE 2 * 15

(* the stored genre and vibe of an id before the run's batch, "null" when  *)
(* the id has no row                                                       *)
Stored(id, field) ==
    IF \E r \in audio_trends : r.id = id
    THEN (CHOOSE r \in audio_trends : r.id = id)[field]
    ELSE "null"

(* positions of the normalized items with a missing or placeholder tag *)
NeedsTag ==
    {i \in 1..Len(run.normalized) :
        \/ Stored(run.normalized[i].id, "genre") \in {"null", "unknown"}
        \/ Stored(run.normalized[i].id, "vibe") \in {"null", "mixed"}}

IsReranked(r, s) ==
    /\ Len(r) = Len(s)
    /\ \A i \in 1..Len(s) : r[i].id = s[i].id /\ r[i].rank = i

OpenAt(b, t) == b.isOpen /\ t < b.nextAttemptTime

----------------------------------------------------------------------------
(* C1: scrapeTikTokTrends never throws: whatever the options, the breaker  *)
(* states, the failures of the store inside getStaleData and cacheResults, *)
(* the outcomes of the primary and secondary sources and the failures of   *)
(* the alert webhook, no step of the call raises.                          *)
C1_NeverThrows == threw = FALSE

(* every live source threw, and the store, which holds rows, failed its read *)
C1_Witness ==
    /\ pc = "done"
    /\ Count(trace, {"primaryThrow"}) = MAX_RETRIES
    /\ Has(trace, "secondaryThrow")
    /\ Has(trace, "alert")
    /\ audio_trends # {}
    /\ staleSeen = <<>>
    /\ ret = <<>>

(* C2: fallback ordering: without useStaleFallback, with the secondary     *)
(* credential configured, when the three primary attempts fail, the one    *)
(* secondary call fails and the store returns N >= 1 rows, the scrape      *)
(* returns exactly those rows in that order with ranks 1..N.               *)
C2_FallbackOrdering ==
    ( /\ pc = "done"
      /\ ~options.useStaleFallback
      /\ env.PROXY_GRID_SECRET
      /\ Count(trace, PrimaryFailures) = MAX_RETRIES
      /\ Count(trace, SecondaryFailures) = 1
      /\ Len(staleSeen) >= 1 )
    => /\ IsReranked(ret, staleSeen)
       /\ staleSeen \in StaleOrders(audio_trends)
       /\ Count(trace, PrimaryEvents) = MAX_RETRIES
       /\ Count(trace, SecondaryEvents) = 1

(* the store returned its two rows with the row of rank 2 first *)
C2_Witness ==
    /\ pc = "done"
    /\ ~options.useStaleFallback
    /\ env.PROXY_GRID_SECRET
    /\ Count(trace, PrimaryFailures) = MAX_RETRIES
    /\ Count(trace, SecondaryFailures) = 1
    /\ Len(staleSeen) = 2
    /\ staleSeen[1].rank = 2
    /\ ret[1].rank = 1

(* C3: availability under total upstream failure: whenever no live source  *)
(* yields items in a scrape and the store has returned at least one stale  *)
(* row, the scrape returns the stale rows re-ranked, for every option,     *)
(* breaker state and configuration of the worker environment.              *)
C3_StaleWhenAllFail ==
    ( /\ pc = "done"
      /\ ~Has(trace, "primaryData")
      /\ ~Has(trace, "secondaryData")
      /\ Len(staleSeen) >= 1 )
    => IsReranked(ret, staleSeen)


(* C4: circuit breaker transition: starting from a closed breaker with     *)
(* failureCount 0, after 5 recordFailure calls with no recordSuccess       *)
(* between them, nextAttemptTime is the time of the 5th failure plus the   *)
(* timeout, and canExecute returns false at every time strictly before it  *)
(* and true at every time from it on.                                      *)
C4_OpenAfterFiveFailures ==
    lastCall.streak = 5 =>
        /\ cb.nextAttemptTime = lastCall.at5 + Timeout(impl)
        /\ (CanExecute(impl, cb, now).ok <=> now >= lastCall.at5 + Timeout(impl))

(* the worker's breaker, refused once before and now at its nextAttemptTime *)
C4_Witness ==
    /\ impl = "worker"
    /\ lastCall.streak = 5
    /\ lastCall.op = "canExecute"
    /\ now = lastCall.at5 + CIRCUIT_TIMEOUT
    /\ lastCall.at5 > 0

(* C5: recordSuccess closes the breaker unconditionally: from a closed     *)
(* breaker, an open one before its cool-down and an open one after it,     *)
(* once recordSuccess has been called isOpen is false, failureCount is 0   *)
(* and canExecute returns true.                                            *)
C5_SuccessCloses ==
    lastCall.op = "recordSuccess" =>
        /\ ~cb.isOpen
        /\ cb.failureCount = 0
        /\ CanExecute(impl, cb, now).ok

(* recordSuccess was called on an open breaker before its cool-down elapsed *)
C5_Witness ==
    /\ lastCall.op = "recordSuccess"
    /\ lastCall.from = "openEarly"
    /\ impl = "lib"

(* C6: half-open behaviour: once an open breaker's nextAttemptTime has     *)
(* elapsed and canExecute has let one call through, a single recordFailure *)
(* re-opens the breaker at once: canExecute returns false until a new      *)
(* cool-down has elapsed.                                                  *)
C6_HalfOpenFailureReopens ==
    lastCall.phase = "halfOpenFailed" =>
        /\ cb.isOpen
        /\ (now < cb.lastFailureTime + Timeout(impl) => ~CanExecute(impl, cb, now).ok)

(* C7: if on entry of scrapeTikTokTrends the stale opt-out does not apply  *)
(* and the primary breaker is open with its nextAttemptTime not elapsed,   *)
(* the primary scraper is not invoked during that scrape and control goes  *)
(* from the gate straight to scrapeWithProxyGridFallback.                  *)
C7_OpenBreakerSkipsPrimary ==
    ( /\ pc # "idle"
      /\ OpenAt(entry.puppeteerBreaker, entry.now)
      /\ ~(options.useStaleFallback /\ Len(entry.stale) > 0) )
    => /\ Count(trace, PrimaryEvents) = 0
       /\ pc \in {"fallback", "done"}
       /\ trace[1] = "stale"
       /\ (Len(trace) >= 2 => trace[2] = "proxyGridFallback")
       /\ (pc = "done" => Len(trace) >= 2)
       /\ puppeteerBreaker = entry.puppeteerBreaker

(* entered with the primary breaker open, served by the secondary source *)
C7_Witness ==
    /\ pc = "done"
    /\ OpenAt(entry.puppeteerBreaker, entry.now)
    /\ ~options.forceProxyGrid
    /\ Has(trace, "secondaryData")
    /\ Len(ret) > 0

(* C8: on the first primary attempt (of at most 3) that returns a          *)
(* non-empty list, the scrape records success on the primary breaker,      *)
(* writes the cache copy and returns that list: no further primary         *)
(* attempt, no secondary call, no second read of stale data.               *)
C8_PrimarySuccessReturns ==
    Has(trace, "primaryData") =>
        /\ pc = "done"
        /\ Len(ret) > 0
        /\ Len(trace) >= 3
        /\ trace[Len(trace) - 1] = "primaryData"
        /\ trace[Len(trace)] = "cache"
        /\ Count(trace, {"primaryData"}) = 1
        /\ Count(trace, PrimaryEvents) <= MAX_RETRIES
        /\ Count(trace, SecondaryEvents) = 0
        /\ ~Has(trace, "proxyGridFallback")
        /\ Count(trace, {"stale"}) = 1
        /\ ~puppeteerBreaker.isOpen
        /\ puppeteerBreaker.failureCount = 0
        /\ proxyGridBreaker = entry.proxyGridBreaker
        /\ \/ audio_trends = entry.audio_trends
           \/ \A i \in 1..Len(ret) : \E r \in audio_trends :
                 r.id = ret[i].id /\ r.rank = ret[i].rank /\ r.updated_at = now

(* two attempts threw, the third returned items and the cache was written *)
C8_Witness ==
    /\ pc = "done"
    /\ Count(trace, {"primaryThrow"}) = 2
    /\ Has(trace, "primaryData")
    /\ entry.puppeteerBreaker.failureCount = 4
    /\ audio_trends # entry.audio_trends

(* C9: in the primary retry loop every attempt that returns an empty list  *)
(* and every attempt that throws records exactly one failure on the        *)
(* primary breaker (failureCount + 1) and, unless it was the third         *)
(* attempt, is followed by the backoff sleep before the next attempt.      *)
C9_FailedAttemptRecordsFailure ==
    [][ ( /\ pc = "primary"
          /\ Len(trace') = Len(trace) + 1
          /\ trace'[Len(trace')] \in PrimaryFailures )
        => /\ puppeteerBreaker'.failureCount = puppeteerBreaker.failureCount + 1
           /\ (attempt < MAX_RETRIES => pc' = "sleep")
           /\ (attempt = MAX_RETRIES => pc' = "fallback") ]_vars

(* C10: stale opt-out: with useStaleFallback set and N >= 1 rows returned  *)
(* by the store, the scrape returns those rows re-ranked 1..N in array     *)
(* order, invokes neither source, writes no cache and leaves both breakers *)
(* unchanged; with useStaleFallback set and no stale row, the call goes on *)
(* to the primary breaker's gate as it does without the flag.              *)
C10_StaleOptOut ==
    /\ ( /\ pc # "idle"
         /\ options.useStaleFallback
         /\ Len(entry.stale) >= 1 )
       => /\ pc = "done"
          /\ IsReranked(ret, entry.stale)
          /\ entry.stale \in StaleOrders(entry.audio_trends)
          /\ trace = <<"stale">>
          /\ puppeteerBreaker = entry.puppeteerBreaker
          /\ proxyGridBreaker = entry.proxyGridBreaker
          /\ audio_trends = entry.audio_trends
    /\ ( /\ pc # "idle"
         /\ options.useStaleFallback
         /\ Len(entry.stale) = 0
         /\ trace = <<"stale">> )
       => /\ pc = IF OpenAt(entry.puppeteerBreaker, entry.now) \/ options.forceProxyGrid
                  THEN "fallback" ELSE "primary"
          /\ ret = <<>>

(* the opt-out served two rows, the row of rank 2 first, with the primary  *)
(* breaker open                                                            *)
C10_Witness ==
    /\ pc = "done"
    /\ options.useStaleFallback
    /\ Len(entry.stale) = 2
    /\ entry.stale[1].rank = 2
    /\ ret[1].rank = 1
    /\ entry.puppeteerBreaker.isOpen

(* C11: when scrapeWithProxyGridFallback is reached with the secondary     *)
(* credential configured and the secondary breaker open before its         *)
(* nextAttemptTime, the secondary source is not invoked and the secondary  *)
(* breaker is left as it was; the scrape returns the stale rows re-ranked  *)
(* 1..N if the store returned any, and the empty list otherwise.           *)
C11_OpenSecondaryServesStale ==
    ( /\ pc = "done"
      /\ Has(trace, "proxyGridFallback")
      /\ env.PROXY_GRID_SECRET
      /\ OpenAt(entry.proxyGridBreaker, now) )
    => /\ Count(trace, SecondaryEvents) = 0
       /\ ~Has(trace, "cache")
       /\ proxyGridBreaker = entry.proxyGridBreaker
       /\ trace[Len(trace) - (IF env.SLACK_WEBHOOK_URL THEN 1 ELSE 0)] = "stale"
       /\ (Len(staleSeen) >= 1 => IsReranked(ret, staleSeen))
       /\ (Len(staleSeen) = 0 => ret = <<>>)
       /\ threw = FALSE

(* three primary attempts threw, the secondary breaker was open and the    *)
(* store returned its two rows with the row of rank 2 first                *)
C11_Witness ==
    /\ pc = "done"
    /\ Has(trace, "proxyGridFallback")
    /\ env.PROXY_GRID_SECRET
    /\ OpenAt(entry.proxyGridBreaker, now)
    /\ Count(trace, {"primaryThrow"}) = MAX_RETRIES
    /\ Len(staleSeen) = 2
    /\ staleSeen[1].rank = 2
    /\ ret[1].rank = 1

(* C12: degraded-path alerting: with SLACK_WEBHOOK_URL configured, every   *)
(* scrape that ends by returning secondary-source data, stale data or the  *)
(* empty list has issued an alert before it returns, and the scrape does   *)
(* not throw whatever the webhook does.                                    *)
C12_DegradedPathAlerts ==
    ( /\ pc = "done"
      /\ env.SLACK_WEBHOOK_URL
      /\ ~Has(trace, "primaryData") )
    => /\ Has(trace, "alert")
       /\ threw = FALSE

(* C15: rank density: for every input list, normalizeTrends returns a list *)
(* of N <= 50 items with pairwise distinct ids whose rank fields are       *)
(* exactly 1, 2, ..., N in list order, where N = min(50, number of         *)
(* distinct ids in the input).                                             *)
C15_RankDensity ==
    normOut.applied =>
        LET out == normOut.val
            ids == {normIn[i].id : i \in 1..Len(normIn)}
        IN  /\ Len(out) = Min(50, Cardinality(ids))
            /\ Len(out) <= 50
            /\ \A i, j \in 1..Len(out) : i # j => out[i].id # out[j].id
            /\ \A i \in 1..Len(out) : out[i].rank = i

(* an input of more than 50 distinct ids, some of them repeated, was cut   *)
(* to 50 items                                                             *)
C15_Witness ==
    /\ normOut.applied
    /\ Cardinality({normIn[i].id : i \in 1..Len(normIn)}) > 50
    /\ Cardinality({normIn[i].id : i \in 1..Len(normIn)}) < Len(normIn)
    /\ Len(normOut.val) = 50
    /\ normOut.val[50].rank = 50

(* C16: normalization order: normalizeTrends keeps, for each id, the       *)
(* fields of its first occurrence in the input, orders the kept items by   *)
(* their original rank ascending (ties keep input order), truncates after  *)
(* sorting, and only then re-ranks; the input [(a, rank 3), (b, rank 1),   *)
(* (a, rank 3)] yields [(b, rank 1), (a, rank 2)].                         *)
C16_NormalizationOrder ==
    normOut.applied =>
        LET out == normOut.val
            first(id) == CHOOSE i \in 1..Len(normIn) :
                            /\ normIn[i].id = id
                            /\ \A j \in 1..Len(normIn) : normIn[j].id = id => i <= j
            src(k) == normIn[first(out[k].id)]
            before(a, ia, b, ib) == a.rank < b.rank \/ (a.rank = b.rank /\ ia < ib)
            dropped == {i \in 1..Len(normIn) :
                          /\ first(normIn[i].id) = i
                          /\ \A k \in 1..Len(out) : out[k].id # normIn[i].id}
        IN  /\ \A k \in 1..Len(out) :
                  /\ \E i \in 1..Len(normIn) : normIn[i].id = out[k].id
                  /\ [out[k] EXCEPT !.rank = src(k).rank] = src(k)
                  /\ out[k].rank = k
            /\ \A k, l \in 1..Len(out) :
                  k < l => before(src(k), first(out[k].id), src(l), first(out[l].id))
            /\ \A i \in dropped : \A k \in 1..Len(out) :
                  before(src(k), first(out[k].id), normIn[i], i)
            /\ (dropped # {} => Len(out) = 50)
            /\ ( ( /\ Len(normIn) = 3
                   /\ normIn[1].id = 1 /\ normIn[1].rank = 3
                   /\ normIn[2].id = 2 /\ normIn[2].rank = 1
                   /\ normIn[3].id = 1 /\ normIn[3].rank = 3 )
                 => /\ Len(out) = 2
                    /\ out[1] = [normIn[2] EXCEPT !.rank = 1]
                    /\ out[2] = [normIn[1] EXCEPT !.rank = 2] )

(* the input [(a, rank 3), (b, rank 1), (a, rank 3)] whose two items of id *)
(* a differ in their title                                                 *)
C16_Witness ==
    /\ normOut.applied
    /\ Len(normIn) = 3
    /\ normIn[1].id = 1 /\ normIn[1].rank = 3
    /\ normIn[2].id = 2 /\ normIn[2].rank = 1
    /\ normIn[3].id = 1 /\ normIn[3].rank = 3
    /\ normIn[1].title # normIn[3].title
    /\ normOut.val[2].title = normIn[1].title

(* C13: runPipeline never throws to its caller: when the history or tag    *)
(* lookup or the final store batch throws, runPipeline still returns a     *)
(* structured result, and a failing store batch yields a result whose      *)
(* status is "error".                                                      *)
C13_PipelineNeverThrows ==
    ppc = "pdone" =>
        /\ ~result.threw
        /\ result.status \in {"success", "warning", "error"}

(* C14: when acquisition returns an empty list, runPipeline returns status *)
(* "warning" with count 0 and tags_generated 0, and the run writes nothing *)
(* to audio_trends, audio_trend_history or hashtags and makes no tagging   *)
(* call.                                                                   *)
C14_EmptyAcquisitionNoWrites ==
    ( /\ ppc = "pdone"
      /\ ~threw
      /\ Len(ret) = 0 )
    => /\ ~result.threw
       /\ result.status = "warning"
       /\ result.count = 0
       /\ result.tags_generated = 0
       /\ audio_trends = entry.audio_trends
       /\ audio_trend_history = entry.audio_trend_history
       /\ hashtags = entry.hashtags
       /\ run.tagCalls = <<>>
       /\ run.statements = <<>>

(* the primary scraper threw three times, no secondary credential was      *)
(* configured, and the run ended over a store that holds rows and history  *)
C14_Witness ==
    /\ ppc = "pdone"
    /\ Len(ret) = 0
    /\ Count(trace, {"primaryThrow"}) = MAX_RETRIES
    /\ audio_trends # {}
    /\ audio_trend_history # {}
    /\ result.status = "warning"

(* C17 as stated: in one pipeline run with limit L (the configured value,  *)
(* 15 when absent or invalid, never more than 50), tagAudioWithAI is       *)
(* invoked exactly min(L, K) times, K being the number of normalized items *)
(* whose existing genre is null or "unknown" or whose existing vibe is     *)
(* null or "mixed".                                                        *)
C17_TagQuotaAsStated ==
    ppc = "batch" =>
        2 * Len(run.tagCalls) = Min(LimitInHalves(run.limit), 2 * Cardinality(NeedsTag))

(* C17, amended: with limit L (Number(AI_TAG_LIMIT), 15 when absent, not   *)
(* finite or not positive, never more than 50, not necessarily an          *)
(* integer), tagAudioWithAI is invoked exactly min(ceil(L), K) times; the  *)
(* invoked items are the first such items in rank order, tags_generated    *)
(* equals the number of invocations, and each invocation consumes one      *)
(* quota unit whether the classifier answered or threw.                    *)
C17_TagQuota ==
    /\ ppc = "batch" =>
          LET n == Min((LimitInHalves(run.limit) + 1) \div 2, Cardinality(NeedsTag))
              nth(k) == CHOOSE i \in NeedsTag :
                           Cardinality({j \in NeedsTag : j <= i}) = k
          IN  /\ Len(run.tagCalls) = n
              /\ \A k \in 1..n : run.tagCalls[k].id = run.normalized[nth(k)].id
              /\ run.tagsGenerated = Len(run.tagCalls)
              /\ LimitInHalves(run.limit) <= 2 * 50
              /\ (~run.limit.given => LimitInHalves(run.limit) = 2 * 15)
              /\ run.maxTags = LimitInHalves(run.limit)
    /\ (ppc = "pdone" /\ result.status = "success")
          => result.tags_generated = Len(run.tagCalls)

(* limit 1 and two items that need tags: one call, which threw *)
C17_Witness ==
    /\ ppc = "batch"
    /\ run.limit.given /\ run.limit.finite /\ run.limit.halves = 2
    /\ Cardinality(NeedsTag) = 2
    /\ Len(run.tagCalls) = 1
    /\ run.tagCalls[1].threw
    /\ run.tagCalls[1].id = run.normalized[1].id

(* C18: a tagging failure does not abort or degrade an item: when the      *)
(* classifier call fails for an item, the item is still in the run's batch *)
(* and its genre and vibe there are its stored tags, placeholders only     *)
(* where no tag was stored: a stored genre other than "unknown" and a      *)
(* stored vibe other than "mixed" are not replaced.                        *)
C18_TagFailureKeepsTags ==
    ppc = "batch" =>
        \A k \in 1..Len(run.tagCalls) :
            run.tagCalls[k].threw =>
                \E i \in 1..Len(run.statements) :
                    LET st == run.statements[i]
                    IN  /\ st.table = "audio_trends"
                        /\ st.id = run.tagCalls[k].id
                        /\ (Stored(st.id, "genre") \notin {"null", "unknown"}
                              => st.genre = Stored(st.id, "genre"))
                        /\ (Stored(st.id, "vibe") \notin {"null", "mixed"}
                              => st.vibe = Stored(st.id, "vibe"))

(* C19: all-or-nothing snapshot: when a pipeline run has ended, its batch  *)
(* having failed or not, either audio_trends holds a row stamped by the    *)
(* run for every item of the run and audio_trend_history holds one new     *)
(* snapshot per item, or neither table has been changed by the run.        *)
C19_AllOrNothing ==
    ppc = "pdone" =>
        \/ /\ audio_trends = entry.audio_trends
           /\ audio_trend_history = entry.audio_trend_history
        \/ /\ Len(run.normalized) > 0
           /\ \A i \in 1..Len(run.normalized) :
                 /\ \E r \in audio_trends :
                       /\ r.id = run.normalized[i].id
                       /\ r.rank = run.normalized[i].rank
                       /\ r.updated_at = run.timestamp
                 /\ \E h \in audio_trend_history \ entry.audio_trend_history :
                       /\ h.id = run.normalized[i].id
                       /\ h.snapshot_at = run.timestamp

(* C20: idempotent upsert: when the second pipeline run has committed, at  *)
(* a timestamp other than the first run's and with the same acquired data, *)
(* audio_trends holds exactly one row per id and audio_trend_history       *)
(* exactly two rows per id, one per run's timestamp.                       *)
C20_IdempotentUpsert ==
    ( /\ ppc = "pdone"
      /\ Len(runs) = 1
      /\ runs[1].status = "success"
      /\ result.status = "success"
      /\ runs[1].acquired = ret
      /\ runs[1].timestamp # run.timestamp )
    => \A i \in 1..Len(ret) :
          LET id == ret[i].id
          IN  /\ Cardinality({r \in audio_trends : r.id = id}) = 1
              /\ Cardinality({h \in audio_trend_history : h.id = id}) = 2
              /\ {h.snapshot_at : h \in {g \in audio_trend_history : g.id = id}}
                    = {runs[1].timestamp, run.timestamp}

(* the second run took the same list from the primary scraper after one    *)
(* throw and one backoff sleep                                             *)
C20_Witness ==
    /\ ppc = "pdone"
    /\ Len(runs) = 1
    /\ runs[1].status = "success"
    /\ result.status = "success"
    /\ runs[1].acquired = ret
    /\ run.timestamp = INITIAL_RETRY_DELAY
    /\ Cardinality(audio_trend_history) = 4

(* C21: history is append-only: in every step of any sequence of pipeline  *)
(* runs, cache writes and reloads of audio_trends, every row of            *)
(* audio_trend_history is kept as it is; the set of rows only grows.       *)
C21_HistoryAppendOnly ==
    [][audio_trend_history \subseteq audio_trend_history']_vars

(* a run has committed its snapshot next to an earlier one, and a reload   *)
(* has then emptied audio_trends                                           *)
C21_Witness ==
    /\ pc = "idle"
    /\ scrapes = 1
    /\ Cardinality(audio_trend_history) = 4
    /\ audio_trends = {}

(* C22: hashtag side-channel isolation: whatever maybeIngestHashtags does  *)
(* (skipped, non-2xx response, malformed payload, fetch throws, hashtag    *)
(* batch throws), a run whose trend batch committed returns status         *)
(* "success" with the count, top_song and tags_generated of the run, and   *)
(* the committed audio_trends and audio_trend_history rows are unchanged.  *)
C22_HashtagIsolation ==
    ( /\ ppc = "pdone"
      /\ run.batches = 1
      /\ audio_trend_history # entry.audio_trend_history )
    => /\ ~result.threw
       /\ result.status = "success"
       /\ result.count = Len(run.normalized)
       /\ result.top_song = run.normalized[1].id
       /\ result.tags_generated = Len(run.tagCalls)
       /\ result.hashtag_ingest \in {"skipped", "error", "empty", "success"}
       /\ audio_trend_history = entry.audio_trend_history \cup HistoryRows(run.statements)
       /\ \A i \in Into(run.statements, "audio_trends") :
             [id |-> run.statements[i].id, rank |-> run.statements[i].rank,
              updated_at |-> run.timestamp, genre |-> run.statements[i].genre,
              vibe |-> run.statements[i].vibe, growth_rate |-> "computed"] \in audio_trends
       /\ (result.hashtag_ingest # "success" => hashtags = entry.hashtags)

(* the trend batch committed two items, one of them tagged, and the        *)
(* hashtag ingest ended in an error                                        *)
C22_Witness ==
    /\ ppc = "pdone"
    /\ run.batches = 1
    /\ audio_trend_history # entry.audio_trend_history
    /\ result.hashtag_ingest = "error"
    /\ result.count = 2
    /\ result.tags_generated = 1

(* C27: one shared timestamp per run: a successful pipeline run over N     *)
(* normalized items submits exactly one batch of 2N statements, one upsert *)
(* into audio_trends and one insert into audio_trend_history per item, and *)
(* after it commits each of the N audio_trends rows has updated_at = T and *)
(* each of the N new history rows has snapshot_at = T, for one single T.   *)
C27_SharedTimestamp ==
    (ppc = "pdone" /\ result.status = "success") =>
        LET N == Len(run.normalized)
            T == run.timestamp
            new == audio_trend_history \ entry.audio_trend_history
        IN  /\ run.batches = 1
            /\ Len(run.statements) = 2 * N
            /\ \A i \in 1..N :
                  /\ Cardinality({k \in Into(run.statements, "audio_trends") :
                                     run.statements[k].id = run.normalized[i].id}) = 1
                  /\ Cardinality({k \in Into(run.statements, "audio_trend_history") :
                                     run.statements[k].id = run.normalized[i].id}) = 1
                  /\ \E r \in audio_trends :
                        r.id = run.normalized[i].id /\ r.updated_at = T
                  /\ \E h \in new :
                        h.id = run.normalized[i].id /\ h.snapshot_at = T
            /\ Cardinality(new) = N
            /\ \A h \in new : h.snapshot_at = T
            /\ \A k \in 1..Len(run.statements) : run.statements[k].at = T

(* a run at time 1000, after one backoff sleep, over two items and an      *)
(* earlier snapshot                                                        *)
C27_Witness ==
    /\ ppc = "pdone"
    /\ result.status = "success"
    /\ run.timestamp = INITIAL_RETRY_DELAY
    /\ Len(run.statements) = 4
    /\ entry.audio_trend_history # {}
    /\ entry.now = 0

(* C28: growth baseline: for each normalized item, the history row handed  *)
(* to calculateGrowthRate is the row of greatest snapshot_at among the     *)
(* history rows of that id committed before the current run, never the     *)
(* run's own snapshot, and is absent exactly when the id has no prior      *)
(* history row.                                                            *)
C28_GrowthBaseline ==
    ppc \in {"items", "batch", "pdone"} =>
        /\ (ppc = "batch" => Len(run.growthCalls) = Len(run.normalized))
        /\ \A k \in 1..Len(run.growthCalls) :
              LET c == run.growthCalls[k]
                  prior == {h \in entry.audio_trend_history : h.id = c.id}
              IN  /\ c.id = run.normalized[k].id
                  /\ (c.history = NoHistory <=> prior = {})
                  /\ (prior # {} =>
                        /\ c.history \in prior
                        /\ \A h \in prior : h.snapshot_at <= c.history.snapshot_at)

(* both items had two earlier snapshots, and the run has committed its own *)
C28_Witness ==
    /\ ppc = "pdone"
    /\ result.status = "success"
    /\ Len(run.growthCalls) = 2
    /\ run.growthCalls[1].history.snapshot_at = INITIAL_RETRY_DELAY
    /\ Cardinality(entry.audio_trend_history) = 4
    /\ Cardinality(audio_trend_history) = 6

(* C23: an authorized manual trigger that carries the forceProxyGrid or    *)
(* the useStaleFallback flag runs the pipeline with that option in effect: *)
(* with forceProxyGrid the primary scraper is not attempted, and with      *)
(* useStaleFallback and stale data present no live source is contacted.    *)
C23_ManualFlagsInEffect ==
    (request.kind = "manual" /\ request.authorized /\ pc # "idle") =>
        /\ (request.forceProxyGrid =>
              /\ options.forceProxyGrid
              /\ Count(trace, PrimaryEvents) = 0)
        /\ (request.useStaleFallback =>
              /\ options.useStaleFallback
              /\ (Len(entry.stale) > 0 =>
                    Count(trace, PrimaryEvents \cup SecondaryEvents) = 0))

(* C24: getTrendsWithFallback never throws and follows the priority        *)
(* D1, KV backup, in-memory cache, empty: the D1 rows when the query       *)
(* succeeded with rows; otherwise the KV backup cut to limit when a        *)
(* namespace is available and its backup is non-empty; otherwise the       *)
(* in-memory copy cut to limit only when it is non-empty and younger than  *)
(* one hour; otherwise the empty list.                                     *)
C24_FallbackPriority ==
    served.source # "none" =>
        LET d1Good  == ~served.d1.threw /\ Len(served.d1.rows) > 0
            kvGood  == /\ served.kvAvail
                       /\ served.kvOut = "ok"
                       /\ served.kv.present
                       /\ Len(served.kv.trends) > 0
            memGood == /\ served.cache.present
                       /\ Len(served.cache.trends) > 0
                       /\ served.at - served.cache.timestamp < 3600000
        IN  /\ ~served.threw
            /\ d1Good => served.rows = served.d1.rows
            /\ (~d1Good /\ kvGood) =>
                  /\ Len(served.rows) = Min(Len(served.kv.trends), served.limit)
                  /\ \A i \in 1..Len(served.rows) : served.rows[i] = served.kv.trends[i]
            /\ (~d1Good /\ ~kvGood /\ memGood) =>
                  /\ Len(served.rows) = Min(Len(served.cache.trends), served.limit)
                  /\ \A i \in 1..Len(served.rows) : served.rows[i] = served.cache.trends[i]
            /\ (~d1Good /\ ~kvGood /\ ~memGood) => served.rows = <<>>

(* the in-memory copy is served while a KV namespace is available but its  *)
(* read failed, and in another call it is passed over for its age          *)
C24_Witness ==
    /\ served.source = "memory"
    /\ served.kvAvail
    /\ served.d1.threw
    /\ Len(served.rows) = 2
    /\ Len(served.cache.trends) = 3
    /\ served.at > served.cache.timestamp

(* C25: fetchWithRetry is bounded: with 3 retries the wrapped operation is *)
(* invoked at most 4 times; the first attempt that succeeds ends the call  *)
(* with its result and no further invocation; when all 4 attempts fail     *)
(* the call throws an error that carries the message of the last failure.  *)
C25_BoundedRetries ==
    LET n == Len(client.outcomes)
    IN  /\ n <= 4
        /\ \A i \in 1..(n - 1) : client.outcomes[i].threw
        /\ (n > 0 /\ ~client.outcomes[n].threw) =>
              /\ client.pc = "done"
              /\ ~client.threw
              /\ client.out = client.outcomes[n].val
        /\ (client.pc = "done" /\ n > 0 /\ client.outcomes[n].threw) =>
              /\ n = 4
              /\ client.threw
              /\ client.message.kind = "retries"
              /\ client.message.cause = client.outcomes[4].msg

(* all four attempts failed, the last with another message than the first *)
C25_Witness ==
    /\ client.pc = "done"
    /\ client.threw
    /\ Len(client.outcomes) = 4
    /\ client.outcomes[1].msg = "e1"
    /\ client.outcomes[4].msg = "e2"
    /\ client.message.cause = "e2"

(* C29: a call of the proxy-grid client whose retries are all exhausted by *)
(* transport failures records one failure on the client's breaker, so that *)
(* the fifth such call in a row leaves the breaker open.                   *)
C29_ExhaustedCallRecordsFailure ==
    (client.pc = "done" /\ client.threw /\ ~client.rejected) =>
        /\ cb.failureCount = client.before.failureCount + 1
        /\ (cb.failureCount >= 5 => cb.isOpen)

(* C30: the entry of the response cache for TikTok trends, when present,   *)
(* holds a non-empty batch, and no call that did not force a fetch is      *)
(* served an empty batch from the cache.                                   *)
C30_CacheHoldsSuccessfulBatch ==
    /\ responseCache["tiktok-trends-default"].present =>
          Len(responseCache["tiktok-trends-default"].data) > 0
    /\ (client.fn = "tiktok" /\ client.fromCache) => Len(client.out) > 0

(* C26: in both retry loops the sleep that follows the failed attempt of   *)
(* index k (from 0) lasts min(1000 * 2^k, 10000) ms: 1000 then 2000 in the *)
(* primary loop of scrapeTikTokTrends, 1000, 2000 and 4000 in              *)
(* fetchWithRetry; no sleep follows the final attempt of either loop and   *)
(* no sleep is longer than 10000 ms.                                       *)
C26_BackoffSchedule ==
    [][/\ (pc = "sleep" /\ pc' = "primary") =>
             /\ attempt \in {1, 2}
             /\ now' - now = Min(1000 * Pow2(attempt - 1), 10000)
             /\ now' - now = (IF attempt = 1 THEN 1000 ELSE 2000)
       /\ (pc = "primary" /\ attempt >= 3) => pc' # "sleep"
       /\ (client.pc = "sleep" /\ client'.pc = "attempt") =>
             /\ client.attempt \in {0, 1, 2}
             /\ now' - now = Min(1000 * Pow2(client.attempt), 10000)
             /\ client'.sleeps = Append(client.sleeps, now' - now)
             /\ \E n \in 1..3 : client'.sleeps = SubSeq(<<1000, 2000, 4000>>, 1, n)
       /\ (client.pc = "attempt" /\ client.attempt >= 3) => client'.pc # "sleep"
       /\ (pc = "sleep" \/ client.pc = "sleep") => now' - now <= 10000
      ]_vars

(* both sleeps of the primary loop and the three of fetchWithRetry have    *)
(* elapsed on a clock that started at 0                                    *)
C26_Witness ==
    /\ scrapes = 1
    /\ client.pc = "done"
    /\ client.threw
    /\ client.sleeps = <<1000, 2000, 4000>>
    /\ now = 1000 + 2000 + 1000 + 2000 + 4000

(* C32: breaker state invariant: in every reachable state of either        *)
(* breaker implementation isOpen is true exactly when failureCount has     *)
(* reached the threshold of 5; so a closed breaker counts 0..4 failures,   *)
(* and an open breaker has nextAttemptTime = the time of its latest        *)
(* recorded failure + the timeout.                                         *)
C32_BreakerStateInvariant ==
    /\ cb.isOpen <=> cb.failureCount >= 5
    /\ ~cb.isOpen => cb.failureCount \in 0..4
    /\ cb.isOpen => cb.nextAttemptTime = cb.lastFailureTime + Timeout(impl)

(* a failure was recorded on a breaker that was already open, later than   *)
(* the failure that opened it                                              *)
C32_Witness ==
    /\ cb.isOpen
    /\ cb.failureCount = 6
    /\ cb.lastFailureTime > 0
    /\ lastCall.op = "recordFailure"

(* C33: the primary scraper is never invoked while the primary breaker is  *)
(* open and its nextAttemptTime has not elapsed, also when the breaker     *)
(* opens in the middle of the retry loop of a scrape: no further primary   *)
(* attempt is made in that scrape.                                         *)
C33_NoCallAgainstOpenBreaker ==
    pc = "primary" => ~OpenAt(puppeteerBreaker, now)

(* C34: a scrape with forceProxyGrid set never invokes the primary scraper *)
(* and leaves isOpen, failureCount and nextAttemptTime of the primary      *)
(* breaker as they were on entry, whatever they were.                      *)
C34_ForcedScrapeKeepsPrimaryBreaker ==
    (pc # "idle" /\ options.forceProxyGrid) =>
        /\ Count(trace, PrimaryEvents) = 0
        /\ puppeteerBreaker.isOpen = entry.puppeteerBreaker.isOpen
        /\ puppeteerBreaker.failureCount = entry.puppeteerBreaker.failureCount
        /\ puppeteerBreaker.nextAttemptTime = entry.puppeteerBreaker.nextAttemptTime

(* C35: the cache write of a scrape never changes genre, vibe or           *)
(* growth_rate of a row of audio_trends that existed before the scrape,    *)
(* never inserts or changes a row of audio_trend_history, and when the     *)
(* write fails the scrape still returns the items it acquired.             *)
C35_CacheResultsFrame ==
    (pc # "idle" /\ ppc = "idle") =>
        /\ \A old \in entry.audio_trends :
              \E r \in audio_trends :
                 /\ r.id = old.id
                 /\ r.genre = old.genre
                 /\ r.vibe = old.vibe
                 /\ r.growth_rate = old.growth_rate
        /\ audio_trend_history = entry.audio_trend_history
        /\ (pc = "done" /\ Has(trace, "cache")) =>
              /\ ~threw
              /\ ret \in LiveLists

(* a scrape cached its items over rows that carried tags and a growth rate *)
(* and had two snapshots in the history                                    *)
C35_Witness ==
    /\ pc = "done"
    /\ ppc = "idle"
    /\ Has(trace, "cache")
    /\ audio_trends # entry.audio_trends
    /\ \E old \in entry.audio_trends : old.genre = "rap" /\ old.growth_rate = "computed"
    /\ Cardinality(audio_trend_history) = 4

(* C36: the source field of a successful result of runPipeline names the   *)
(* source that supplied the persisted items: "puppeteer" only when the     *)
(* primary scraper returned them, "proxy-grid" only when the secondary     *)
(* source returned them, "stale" when they came from the stale fallback.   *)
C36_SourceNamesSupplier ==
    (ppc = "pdone" /\ result.status = "success") =>
        result.source = (IF Has(trace, "secondaryData") THEN "proxy-grid"
                         ELSE IF Has(trace, "primaryData") THEN "puppeteer"
                         ELSE "stale")

(* C39: stale data keeps the stored leaderboard order: whenever the scrape *)
(* returns stale rows, for any two returned items a and b, stored rank(a)  *)
(* < stored rank(b) implies returned rank(a) < returned rank(b).           *)
C39_StaleKeepsStoredOrder ==
    ( /\ pc = "done"
      /\ ~threw
      /\ ~Has(trace, "primaryData")
      /\ ~Has(trace, "secondaryData")
      /\ Len(staleSeen) >= 1
      /\ Len(ret) = Len(staleSeen) )
    => \A i, j \in 1..Len(ret) :
          staleSeen[i].rank < staleSeen[j].rank => ret[i].rank < ret[j].rank

----------------------------------------------------------------------------
(* worker/ai-tagger.ts: the cron health record. The scheduled handler      *)
(* writes the key "cron:execution" of MOCK_KV after each run; kvPut with a *)
(* ttl arms a timer that deletes the key ttl seconds later, and a later    *)
(* kvPut does not cancel it. cronLog is the history of the invocations:    *)
(* "throw" for a run whose runPipeline threw, "ok" otherwise.              *)

CRON_TTL == 86400000

MaxCronRuns == 4

MaxCronTime == 172800000

CronStep == CRON_TTL \div 2

(* MOCK_KV.get(key) ?? null *)
kvGet(kv) == [found |-> kv.present, value |-> kv.value]

(* MOCK_KV.set(key, value); setTimeout(() => MOCK_KV.delete(key), ttl) *)
kvPut(kv, value, ttl, t) ==
    [present |-> TRUE, value |-> value, timers |-> kv.timers \cup {t + ttl}]

(* { ...current, ...update } *)
Spread(current, update) ==
    [f \in DOMAIN current |->
        IF f \in DOMAIN update THEN update[f] ELSE current[f]]

recordCronExecution(kv, update, t) ==
    LET existing == kvGet(kv)
        current  == IF existing.found THEN existing.value ELSE NoExecution
        updated  == [Spread(current, update) EXCEPT
                        !.lastRun = update.lastRun,
                        !.totalRuns = current.totalRuns + 1]
    IN  kvPut(kv, updated, CRON_TTL, t)

recordCronFailure(kv, t) ==
    LET existing == kvGet(kv)
        current  == IF existing.found THEN existing.value ELSE NoExecution
        updated  == [current EXCEPT
                        !.lastRun = t,
                        !.lastFailure = t,
                        !.consecutiveFailures = current.consecutiveFailures + 1,
                        !.consecutiveSuccesses = 0,
                        !.totalRuns = current.totalRuns + 1]
    IN  kvPut(kv, updated, CRON_TTL, t)

(* what runPipeline hands to the scheduled handler: an exception, a        *)
(* warning result or a success result                                      *)
CronRunResults ==
    {Thrown, Warning("stale"),
     [status |-> "success", count |-> 2, top_song |-> "b", tags_generated |-> 2,
      source |-> "puppeteer", hashtag_ingest |-> "success", threw |-> FALSE]}

CronFrame ==
    UNCHANGED <<workerVars, breakerVars, pipeVars, normVars, fallbackVars,
                clientVars, queryVars, rateVars>>

(* scheduled: try { runPipeline; recordCronExecution } catch               *)
(* { recordCronFailure }                                                   *)
CronScheduled(res) ==
    /\ Len(cronLog) < MaxCronRuns
    /\ MOCK_KV' = IF res.threw
                  THEN recordCronFailure(MOCK_KV, now)
                  ELSE recordCronExecution(MOCK_KV,
                           [lastRun |-> now, lastSuccess |-> now,
                            lastFailure |-> 0, consecutiveFailures |-> 0,
                            consecutiveSuccesses |-> 1, totalRuns |-> 1], now)
    /\ cronLog' = Append(cronLog, IF res.threw THEN "throw" ELSE "ok")
    /\ UNCHANGED now
    /\ CronFrame

(* a timer armed by kvPut is due: MOCK_KV.delete(key) *)
CronExpire ==
    /\ \E t \in MOCK_KV.timers :
          /\ t <= now
          /\ MOCK_KV' = [MOCK_KV EXCEPT !.present = FALSE,
                                        !.timers = MOCK_KV.timers \ {t}]
    /\ UNCHANGED <<now, cronLog>>
    /\ CronFrame

(* the clock advances; a due timer fires before the clock moves on *)
CronTick ==
    /\ now + CronStep <= MaxCronTime
    /\ \A t \in MOCK_KV.timers : t > now
    /\ now' = now + CronStep
    /\ UNCHANGED cronVars
    /\ CronFrame

NextCron ==
    \/ \E res \in CronRunResults : CronScheduled(res)
    \/ CronExpire
    \/ CronTick

CronSpec == InitF /\ [][NextCron]_vars

(* the number of entries o at the end of the log *)
Streak(log, o) ==
    CHOOSE k \in 0..Len(log) :
        /\ \A i \in (Len(log) - k + 1)..Len(log) : log[i] = o
        /\ k < Len(log) => log[Len(log) - k] # o

(* the counters a reader of the key sees *)
CronHealth == IF MOCK_KV.present THEN MOCK_KV.value ELSE NoExecution

(* C37: cron health counters: after any sequence of scheduled invocations  *)
(* totalRuns is the number of invocations, consecutiveFailures the number  *)
(* of throwing runs since the last non-throwing run and                    *)
(* consecutiveSuccesses the number of non-throwing runs since the last     *)
(* throwing run.                                                           *)
C37_CronCounters ==
    Len(cronLog) >= 1 =>
        /\ CronHealth.totalRuns = Len(cronLog)
        /\ CronHealth.consecutiveFailures = Streak(cronLog, "throw")
        /\ CronHealth.consecutiveSuccesses = Streak(cronLog, "ok")

----------------------------------------------------------------------------
(* lib/db.ts: cachedQuery. A call looks the key up; on a miss it awaits    *)
(* the query function, which reads the table, and stores what it read      *)
(* under the key when it resumes. Other calls, reloadAudioTrends,          *)
(* invalidateCache and invalidateAllCaches run while a call awaits.        *)
(* CACHE_VERSION is one constant, so the version test of an entry always   *)
(* passes and entries carry no version.                                    *)

QUERY_TTL_SHORT == 60000

QUERY_TTL_LONG == 900000

MaxQueryTime == 60000

Ttl(key) == IF key = "v1:trends:50" THEN QUERY_TTL_SHORT ELSE QUERY_TTL_LONG

(* the rows the query function of the key selects *)
QueryRows(key, T) ==
    IF key = "v1:trends:50" THEN T ELSE {r \in T : r.id = "a"}

QueryFrame ==
    UNCHANGED <<workerVars, breakerVars, pipeVars, normVars, fallbackVars,
                clientVars, cronVars, rateVars>>

(* cachedQuery up to its await: a fresh entry is returned, an expired one  *)
(* is deleted                                                              *)
QBegin(c, key) ==
    /\ queries[c].pc = "idle"
    /\ LET cached == queryCache[key]
           fresh  == cached.present /\ now - cached.timestamp < Ttl(key)
       IN  IF fresh
           THEN /\ queries' = [queries EXCEPT ![c] =
                       [pc |-> "done", key |-> key, val |-> cached.data,
                        hit |-> TRUE, crossed |-> FALSE,
                        stale |-> cached.crossed]]
                /\ UNCHANGED queryCache
           ELSE /\ queries' = [queries EXCEPT ![c] =
                       [pc |-> "await", key |-> key, val |-> {},
                        hit |-> FALSE, crossed |-> FALSE,
                        stale |-> FALSE]]
                /\ queryCache' = [queryCache EXCEPT ![key] = NoQueryEntry]
    /\ UNCHANGED now
    /\ QueryFrame

(* the query function reads the table *)
QRead(c) ==
    /\ queries[c].pc = "await"
    /\ queries' = [queries EXCEPT ![c].pc = "read",
                                  ![c].val = QueryRows(queries[c].key, audio_trends)]
    /\ UNCHANGED <<now, queryCache>>
    /\ QueryFrame

(* the await resumes: queryCache.set(key, { data, timestamp }); return *)
QResume(c) ==
    /\ queries[c].pc = "read"
    /\ queryCache' = [queryCache EXCEPT ![queries[c].key] =
                         [present |-> TRUE, data |-> queries[c].val,
                          timestamp |-> now, crossed |-> queries[c].crossed]]
    /\ queries' = [queries EXCEPT ![c].pc = "done"]
    /\ UNCHANGED now
    /\ QueryFrame

(* the caller has its rows *)
QReturn(c) ==
    /\ queries[c].pc = "done"
    /\ queries' = [queries EXCEPT ![c] = NoQuery]
    /\ UNCHANGED <<now, queryCache>>
    /\ QueryFrame

InvalidateCache(pattern) ==
    /\ \/ \E k \in QueryKeys : queryCache[k].present /\ Includes(k, pattern)
       \/ \E c \in Callers : queries[c].pc = "read" /\ Includes(queries[c].key, pattern)
    /\ queryCache' = invalidateCache(queryCache, pattern)
    /\ queries' = Crossing(queries, pattern)
    /\ UNCHANGED now
    /\ QueryFrame

QTick ==
    /\ now + QUERY_TTL_SHORT <= MaxQueryTime
    /\ now' = now + QUERY_TTL_SHORT
    /\ UNCHANGED queryVars
    /\ QueryFrame

NextQ ==
    \/ \E c \in Callers, key \in QueryKeys : QBegin(c, key)
    \/ \E c \in Callers : QRead(c)
    \/ \E c \in Callers : QResume(c)
    \/ \E c \in Callers : QReturn(c)
    \/ \E pattern \in {"trends", "audio"} : InvalidateCache(pattern)
    \/ invalidateAllCaches
    \/ \E delOut \in Outcomes, done \in {{}, ReloadRecords} : Reload(delOut, done)
    \/ QTick

QuerySpec == InitF /\ [][NextQ]_vars

(* C38: cache invalidation is not undone by in-flight queries: when        *)
(* clearCache() or invalidateCache(pattern) runs while a cachedQuery for   *)
(* a matching key awaits its query function, no cachedQuery call made      *)
(* after the invalidation returns the rows that in-flight query had read.  *)
C38_InvalidationNotUndone ==
    \A c \in Callers :
        ~(queries[c].pc = "done" /\ queries[c].hit /\ queries[c].stale)

----------------------------------------------------------------------------
(* middleware: the in-memory rate limiter of the API routes. The limits    *)
(* come from RATE_LIMIT_CONFIGS of lib/rate-limit; the middleware's table  *)
(* RATE_LIMITS names them api (100 requests a minute) and strict (10 a     *)
(* minute). The model keeps the window of one minute and scales the two    *)
(* maxima down to MaxApi and MaxStrict.                                    *)

MaxApi == 3

MaxStrict == 2

RATE_WINDOW == 60

MaxRequests == 5

MaxRateTime == 120000

RateStep == (RATE_WINDOW * 1000) \div 2

RATE_LIMIT_CONFIGS ==
    [api    |-> [window |-> RATE_WINDOW, max |-> MaxApi],
     strict |-> [window |-> RATE_WINDOW, max |-> MaxStrict]]

Pathnames == {"/api/bio", "/api/v1/trends"}

(* getRateLimitConfig: the first prefix of RATE_LIMITS, or the default *)
getRateLimitConfig(pathname) ==
    IF pathname = "/api/health" THEN "api"
    ELSE IF pathname = "/api/bio" THEN "strict"
    ELSE "api"

(* for (const [k, v] of rateLimitStore.entries())                          *)
(*   if (v.resetTime < now) rateLimitStore.delete(k)                       *)
CleanUp(store, t) ==
    [k \in DOMAIN store |->
        IF store[k].present /\ store[k].resetTime < t THEN NoRateEntry
        ELSE store[k]]

checkInMemoryRateLimit(store, identifier, config, t) ==
    LET cleaned   == CleanUp(store, t)
        e         == cleaned[identifier]
        resetTime == t + config.window * 1000
    IN  IF ~e.present \/ e.resetTime < t
        THEN [store |-> [cleaned EXCEPT ![identifier] =
                            [present |-> TRUE, count |-> 1,
                             resetTime |-> resetTime]],
              allowed |-> TRUE, limit |-> config.max,
              remaining |-> config.max - 1, reset |-> resetTime]
        ELSE IF e.count >= config.max
        THEN [store |-> cleaned,
              allowed |-> FALSE, limit |-> config.max,
              remaining |-> 0, reset |-> e.resetTime]
        ELSE [store |-> [cleaned EXCEPT ![identifier].count = e.count + 1],
              allowed |-> TRUE, limit |-> config.max,
              remaining |-> config.max - (e.count + 1), reset |-> e.resetTime]

RateFrame ==
    UNCHANGED <<workerVars, breakerVars, pipeVars, normVars, fallbackVars,
                clientVars, cronVars, queryVars>>

(* handleApiRoute: the limiter's answer decides between 429 and the        *)
(* response with the X-RateLimit headers                                   *)
handleApiRoute(identifier, pathname) ==
    /\ Len(rateLog) < MaxRequests
    /\ LET configKey == getRateLimitConfig(pathname)
           r == checkInMemoryRateLimit(rateLimitStore, identifier,
                                       RATE_LIMIT_CONFIGS[configKey], now)
       IN  /\ rateLimitStore' = r.store
           /\ rateLog' = Append(rateLog,
                  [identifier |-> identifier, config |-> configKey, at |-> now,
                   allowed |-> r.allowed,
                   status |-> IF r.allowed THEN 200 ELSE 429,
                   remaining |-> IF r.allowed THEN r.remaining ELSE 0,
                   reset |-> r.reset])
    /\ UNCHANGED now
    /\ RateFrame

RateTick ==
    /\ now + RateStep <= MaxRateTime
    /\ now' = now + RateStep
    /\ UNCHANGED rateVars
    /\ RateFrame

NextRate ==
    \/ \E identifier \in Identifiers, pathname \in Pathnames :
          handleApiRoute(identifier, pathname)
    \/ RateTick

RateLimitSpec == InitF /\ [][NextRate]_vars

(* the allowed requests of an identifier among the first n answers that    *)
(* fall at or after the time from                                          *)
AllowedSince(identifier, from, n) ==
    {i \in 1..n : /\ rateLog[i].identifier = identifier
                  /\ rateLog[i].allowed
                  /\ rateLog[i].at >= from}

(* C31: the middleware rate limiter is a sliding window: for an identifier *)
(* whose requests all fall under one configuration, every interval of      *)
(* window seconds holds at most max allowed requests, and an allowed       *)
(* request reports a remaining of max minus the allowed requests of the    *)
(* window that ends with it, never a negative one.                         *)
C31_SlidingWindow ==
    \A j \in 1..Len(rateLog) :
        LET e      == rateLog[j]
            cfg    == RATE_LIMIT_CONFIGS[e.config]
            inWin  == AllowedSince(e.identifier, e.at - cfg.window * 1000, j)
        IN  ( /\ e.allowed
              /\ \A i \in 1..j : rateLog[i].identifier = e.identifier
                                    => rateLog[i].config = e.config )
            => /\ Cardinality(inWin) <= cfg.max
               /\ e.remaining = cfg.max - Cardinality(inWin)
               /\ e.remaining >= 0

====
